---------------------------- MODULE Spec2Model ----------------------------
(***************************************************************************)
(* A model of the car-wash services: the User Service (auth, CRUD, HTTP    *)
(* API) and the Wash-Advisor Service (recommendation cache, scoring, HTTP  *)
(* API).  Each service has its own specification over the shared variable  *)
(* tuple; a specification leaves the other services' variables unchanged.  *)
(***************************************************************************)
EXTENDS Integers, Sequences, FiniteSets, TLC

VARIABLES
    now,        \* user service: the server clock (datetime.utcnow), in minutes
    token,      \* user service: the token last returned by create_access_token
    call,       \* user service: the last auth call, its arguments and outcome
    users,      \* user service: the rows of the users table
    req,        \* user service: the HTTP request being answered
    resp,       \* user service: the HTTP response to req
    utxns,      \* user service: the create_user calls in flight, each
                \*               with its own database session
    clock,      \* advisor: the server clock (datetime.now), in hours
    recs,       \* advisor: the rows of wash_recommendations
    ctx,        \* advisor: the rows of user_context
    areq,       \* advisor: the request being answered, with what the
                \*          upstream services answered while it ran
    aresp,      \* advisor: the response to areq
    txns,       \* advisor: the requests in flight, each with its own
                \*          database session
    wclock,     \* weather: the server clock (datetime.now), in hours since
                \*          midnight of the day the process was started
    weather_client,  \* weather: whether the provider client is initialised
    locations,  \* weather: the rows of locations
    forecasts,  \* weather: the rows of weather_forecasts
    api_request_logs,  \* weather: the rows of api_request_logs
    wreq,       \* weather: the request or call being answered, with what
                \*          the provider answered while it ran
    wresp,      \* weather: the response to wreq
    wtxns,      \* weather: the requests in flight, each with its own
                \*          database session
    fetch,      \* weather: the get_forecast call of the provider client
    boot,       \* a service's startup_event: its position and what it did
    logging     \* common_logger: the CentralizedLogger class and the
                \*                handlers of the root logger

authVars == <<now, token, call>>
userVars == <<users, req, resp, utxns>>
advisorVars == <<clock, recs, ctx, areq, aresp, txns>>
weatherVars ==
    <<wclock, weather_client, locations, forecasts, api_request_logs, wreq,
      wresp, wtxns>>
procVars == <<fetch, boot, logging>>
vars ==
    <<now, token, call, users, req, resp, utxns, clock, recs, ctx, areq,
      aresp, txns, wclock, weather_client, locations, forecasts,
      api_request_logs, wreq, wresp, wtxns, fetch, boot, logging>>

(***************************************************************************)
(* Optional values: Python's None and a present value.                     *)
(***************************************************************************)
None == <<>>
Some(v) == <<v>>
IsSome(o) == o # <<>>
Get(o) == o[1]
Option(S) == {None} \cup {Some(v) : v \in S}

(***************************************************************************)
(* Bounds of the model.                                                    *)
(***************************************************************************)
MaxNow == 33
MaxUsers == 2
MaxClock == 48
MaxRecs == 2

Usernames == {"alice", "bob"}
Emails == {"a@example.com", "b@example.com"}
Passwords == {"testpass123", "wrongpassword"}
Salts == {"salt1", "salt2"}
UserIds == 1..MaxUsers
Lifetimes == {0 - 1, 0, 2}
Cities == {"Moscow", "Kazan"}
IsoDates == {"2024-01-15"}
RawDates == IsoDates \cup {"not-a-date"}

(***************************************************************************)
(* user_service/app/auth.py                                                *)
(***************************************************************************)
SECRET_KEY == "my-secret-key"
OtherKey == "not-the-secret-key"
ACCESS_TOKEN_EXPIRE_MINUTES == 30

\* jwt.encode(to_encode, SECRET_KEY, algorithm=ALGORITHM): a signed token.
jwt_encode(claims, key) ==
    [wellformed |-> TRUE, key |-> key, claims |-> claims]

\* jwt.decode(token, SECRET_KEY, algorithms=[ALGORITHM]) at time t: the
\* payload, or JWTError for a malformed token, a signature made with another
\* key, or an exp claim in the past.
jwt_decode(tok, key, t) ==
    IF ~tok.wellformed THEN [ok |-> FALSE]
    ELSE IF tok.key # key THEN [ok |-> FALSE]
    ELSE IF IsSome(tok.claims.exp) /\ Get(tok.claims.exp) < t THEN [ok |-> FALSE]
    ELSE [ok |-> TRUE, payload |-> tok.claims]

\* "if expires_delta:" -- a timedelta is truthy unless it is None or zero.
Truthy_timedelta(expires_delta) ==
    IsSome(expires_delta) /\ Get(expires_delta) # 0

create_access_token_expire(expires_delta, t) ==
    IF Truthy_timedelta(expires_delta)
    THEN t + Get(expires_delta)
    ELSE t + ACCESS_TOKEN_EXPIRE_MINUTES

\* create_access_token(data, expires_delta) called at time t.
create_access_token(data, expires_delta, t) ==
    jwt_encode([sub |-> data.sub, user_id |-> data.user_id,
                exp |-> Some(create_access_token_expire(expires_delta, t))],
               SECRET_KEY)

credentials_exception ==
    [raised |-> TRUE, status_code |-> 401,
     detail |-> "Could not validate credentials",
     headers |-> "WWW-Authenticate: Bearer"]

get_current_user_LeakExpiry(credentials, t) ==
    LET d == jwt_decode(credentials, SECRET_KEY, t) IN
    IF ~d.ok
    THEN IF credentials.wellformed /\ credentials.key = SECRET_KEY
         THEN [credentials_exception EXCEPT !.detail = "Token expired"]
         ELSE credentials_exception
    ELSE IF d.payload.sub = None \/ d.payload.user_id = None
    THEN credentials_exception
    ELSE [raised |-> FALSE,
          value |-> [username |-> Get(d.payload.sub),
                     user_id |-> Get(d.payload.user_id)]]

\* get_current_user(credentials) called at time t: the user dict, or the
\* HTTPException it raises.
get_current_user(credentials, t) ==
    LET d == jwt_decode(credentials, SECRET_KEY, t) IN
    IF ~d.ok THEN credentials_exception
    ELSE IF d.payload.sub = None \/ d.payload.user_id = None
    THEN credentials_exception
    ELSE [raised |-> FALSE,
          value |-> [username |-> Get(d.payload.sub),
                     user_id |-> Get(d.payload.user_id)]]

\* The bearer credentials a client can present once a token tok was issued:
\* the token itself, garbage, the same claims signed with another key, and
\* server-signed tokens that lack one of the claims.
Presentable(tok) ==
    { tok,
      [tok EXCEPT !.wellformed = FALSE],
      [tok EXCEPT !.key = OtherKey],
      [tok EXCEPT !.claims.sub = None],
      [tok EXCEPT !.claims.user_id = None] }

(***************************************************************************)
(* user_service/app/crud.py                                                *)
(***************************************************************************)
\* bcrypt.hashpw(password, salt): the salt and the digest of salt and
\* password, one value per (salt, password).
bcrypt_hashpw(password, salt) ==
    [salt |-> salt, digest |-> <<salt, password>>]

\* hash_password(password) with the salt bcrypt.gensalt() drew.
hash_password(password, salt) == bcrypt_hashpw(password, salt)

verify_password_AcceptAll(plain_password, hashed_password) == TRUE

\* verify_password: bcrypt.checkpw hashes the plain password with the salt
\* of the stored hash and compares.
verify_password(plain_password, hashed_password) ==
    bcrypt_hashpw(plain_password, hashed_password.salt) = hashed_password

\* select(User).where(...).scalar_one_or_none()
ScalarOneOrNone(rows) ==
    IF rows = {} THEN None ELSE Some(CHOOSE u \in rows : TRUE)

get_user_by_id(U, user_id) ==
    ScalarOneOrNone({u \in U : u.id = user_id})

get_user_by_username(U, username) ==
    ScalarOneOrNone({u \in U : u.username = username})

get_user_by_email_NeverFound(U, email) == None

get_user_by_email(U, email) ==
    ScalarOneOrNone({u \in U : u.email = email})

\* CRUD.create_user: [ret, users] -- the returned user (or None) and the
\* table after the call; id is the uuid the insert would draw.
create_user(U, user_data, salt, id) ==
    IF IsSome(get_user_by_username(U, user_data.username))
    THEN [ret |-> None, users |-> U]
    ELSE IF IsSome(get_user_by_email(U, user_data.email))
    THEN [ret |-> None, users |-> U]
    ELSE LET user == [id |-> id,
                      username |-> user_data.username,
                      email |-> user_data.email,
                      hashed_password |-> hash_password(user_data.password, salt),
                      city |-> user_data.city,
                      country |-> user_data.country,
                      last_wash_date |-> None,
                      preferred_wash_interval |->
                          user_data.preferred_wash_interval]
         IN [ret |-> Some(user), users |-> U \cup {user}]

\* update(User).where(User.id == user_id).values(**update_data) on one row:
\* update_data = user_data.dict(exclude_unset=True) holds the supplied
\* fields only (an unset field is None here, a supplied one Some(value)).
ApplyValues_AlsoResetUnset(u, update_data) ==
    [u EXCEPT
       !.city = IF IsSome(update_data.city)
                THEN Get(update_data.city) ELSE None,
       !.country = IF IsSome(update_data.country)
                   THEN Get(update_data.country) ELSE @,
       !.last_wash_date = IF IsSome(update_data.last_wash_date)
                          THEN Get(update_data.last_wash_date) ELSE @,
       !.preferred_wash_interval =
           IF IsSome(update_data.preferred_wash_interval)
           THEN Get(update_data.preferred_wash_interval) ELSE @]

ApplyValues(u, update_data) ==
    [u EXCEPT
       !.city = IF IsSome(update_data.city)
                THEN Get(update_data.city) ELSE @,
       !.country = IF IsSome(update_data.country)
                   THEN Get(update_data.country) ELSE @,
       !.last_wash_date = IF IsSome(update_data.last_wash_date)
                          THEN Get(update_data.last_wash_date) ELSE @,
       !.preferred_wash_interval =
           IF IsSome(update_data.preferred_wash_interval)
           THEN Get(update_data.preferred_wash_interval) ELSE @]

\* CRUD.update_user: [ret, users].
update_user(U, user_id, user_data) ==
    IF get_user_by_id(U, user_id) = None
    THEN [ret |-> None, users |-> U]
    ELSE LET U2 == {IF u.id = user_id THEN ApplyValues(u, user_data) ELSE u
                    : u \in U}
         IN [ret |-> get_user_by_id(U2, user_id), users |-> U2]

\* CRUD.update_last_wash_date: [ret, users], ret the boolean it returns.
update_last_wash_date(U, user_id, wash_date) ==
    IF get_user_by_id(U, user_id) = None
    THEN [ret |-> FALSE, users |-> U]
    ELSE [ret |-> TRUE,
          users |-> {IF u.id = user_id
                     THEN [u EXCEPT !.last_wash_date = Some(wash_date)]
                     ELSE u : u \in U}]

\* CRUD.authenticate_user: the user, or None.
authenticate_user(U, username, password) ==
    LET user == get_user_by_username(U, username) IN
    IF user = None THEN None
    ELSE IF ~verify_password(password, Get(user).hashed_password) THEN None
    ELSE user

(***************************************************************************)
(* user_service/app/schemas.py and the request validation FastAPI runs     *)
(* before an endpoint's body                                               *)
(***************************************************************************)
\* UserCreate: preferred_wash_interval: int = Field(7, ge=1, le=14).
UserCreateValid(user_data) ==
    user_data.preferred_wash_interval \in 1..14

\* UserUpdate: preferred_wash_interval: Optional[int] = Field(None, ge=1, le=14).
UserUpdateValid(user_data) ==
    IsSome(user_data.preferred_wash_interval) =>
        Get(user_data.preferred_wash_interval) \in 1..14

\* wash_date: date -- a required query parameter parsed as an ISO date;
\* None when it is missing or does not parse.
ParseWashDate(raw) ==
    IF IsSome(raw) /\ Get(raw) \in IsoDates THEN raw ELSE None

\* UserResponse.from_orm(user): the row without hashed_password.
UserResponse(u) ==
    [id |-> u.id, username |-> u.username, email |-> u.email,
     city |-> u.city, country |-> u.country,
     last_wash_date |-> u.last_wash_date,
     preferred_wash_interval |-> u.preferred_wash_interval]

(***************************************************************************)
(* user_service/app/main.py: the endpoints' bodies.  Each yields the       *)
(* response (status, body), what the CRUD call returned, and the table     *)
(* afterwards.                                                             *)
(***************************************************************************)
NotCalled == [called |-> FALSE]
Returned(v) == [called |-> TRUE, ret |-> v]

\* "except Exception" around the body of create_user: it also catches the
\* HTTPException the body raises, and answers 500.
ExceptException500(raised_status) == 500

ExceptHTTPExceptionReraise(raised_status) == raised_status

\* POST /api/users
create_user_endpoint(U, user_data, salt, id) ==
    LET r == create_user(U, user_data, salt, id) IN
    IF r.ret = None
    THEN [status |-> ExceptException500(400), body |-> None,
          crud |-> Returned(r.ret), users |-> r.users]
    ELSE [status |-> 201, body |-> Some(UserResponse(Get(r.ret))),
          crud |-> Returned(r.ret), users |-> r.users]

\* POST /api/auth/login
login(U, login_data, t) ==
    LET user == authenticate_user(U, login_data.username, login_data.password)
    IN IF user = None
       THEN [status |-> ExceptHTTPExceptionReraise(401), body |-> None,
             crud |-> Returned(user), users |-> U]
       ELSE [status |-> 200,
             body |-> Some([access_token |->
                               create_access_token(
                                   [sub |-> Some(Get(user).username),
                                    user_id |-> Some(Get(user).id)], None, t),
                            token_type |-> "bearer"]),
             crud |-> Returned(user), users |-> U]

\* GET /api/users/{user_id}
get_user(U, user_id) ==
    LET user == get_user_by_id(U, user_id) IN
    IF user = None
    THEN [status |-> ExceptHTTPExceptionReraise(404), body |-> None,
          crud |-> Returned(user), users |-> U]
    ELSE [status |-> 200, body |-> Some(UserResponse(Get(user))),
          crud |-> Returned(user), users |-> U]

update_user_endpoint_NoOwnerCheck(U, user_id, user_data, current_user) ==
    LET r == update_user(U, user_id, user_data) IN
    IF r.ret = None
    THEN [status |-> 404, body |-> None, crud |-> Returned(r.ret),
          users |-> r.users]
    ELSE [status |-> 200, body |-> Some(UserResponse(Get(r.ret))),
          crud |-> Returned(r.ret), users |-> r.users]

\* PUT /api/users/{user_id}
update_user_endpoint(U, user_id, user_data, current_user) ==
    IF current_user.user_id # user_id
    THEN [status |-> ExceptHTTPExceptionReraise(403), body |-> None,
          crud |-> NotCalled, users |-> U]
    ELSE LET r == update_user(U, user_id, user_data) IN
         IF r.ret = None
         THEN [status |-> ExceptHTTPExceptionReraise(404), body |-> None,
               crud |-> Returned(r.ret), users |-> r.users]
         ELSE [status |-> 200, body |-> Some(UserResponse(Get(r.ret))),
               crud |-> Returned(r.ret), users |-> r.users]

update_wash_date_NoOwnerCheck(U, user_id, wash_date, current_user) ==
    LET r == update_last_wash_date(U, user_id, wash_date) IN
    IF ~r.ret
    THEN [status |-> 404, body |-> None, crud |-> Returned(r.ret),
          users |-> r.users]
    ELSE [status |-> 200,
          body |-> Some(UserResponse(Get(get_user_by_id(r.users, user_id)))),
          crud |-> Returned(r.ret), users |-> r.users]

\* PUT /api/users/{user_id}/wash-date
update_wash_date(U, user_id, wash_date, current_user) ==
    IF current_user.user_id # user_id
    THEN [status |-> ExceptHTTPExceptionReraise(403), body |-> None,
          crud |-> NotCalled, users |-> U]
    ELSE LET r == update_last_wash_date(U, user_id, wash_date) IN
         IF ~r.ret
         THEN [status |-> ExceptHTTPExceptionReraise(404), body |-> None,
               crud |-> Returned(r.ret), users |-> r.users]
         ELSE [status |-> 200,
               body |-> Some(UserResponse(Get(get_user_by_id(r.users, user_id)))),
               crud |-> Returned(r.ret), users |-> r.users]

\* Depends(get_current_user) on the HTTPBearer credentials: without an
\* Authorization header HTTPBearer itself refuses the request (401 or 403,
\* by FastAPI version: no_credentials_status).
SolveCurrentUser(credentials, no_credentials_status, t) ==
    IF credentials = None
    THEN [raised |-> TRUE, status_code |-> no_credentials_status]
    ELSE get_current_user(Get(credentials), t)

\* A protected route: the dependencies are solved first (an HTTPException
\* of get_current_user ends the request), then the declared parameters are
\* validated (422), and only then the endpoint's body runs.
ProtectedRoute(U, auth, params_valid, endpoint_result) ==
    IF auth.raised
    THEN [status |-> auth.status_code, body |-> None, crud |-> NotCalled,
          users |-> U]
    ELSE IF ~params_valid
    THEN [status |-> 422, body |-> None, crud |-> NotCalled, users |-> U]
    ELSE endpoint_result

NoCall == [op |-> "none"]

NoRequest == [op |-> "none"]
NoResponse == [status |-> 0]

\* An idle slot for a request of the Wash-Advisor Service.
Idle == [pc |-> "idle"]

MaxInFlight == 2

NoRequestsInFlight == [k \in 1..MaxInFlight |-> Idle]

\* No get_forecast call has been made.
NoFetch ==
    [pc |-> "idle", api_key |-> FALSE, attempt |-> 0, trace |-> <<>>,
     ret |-> <<>>]

\* No startup_event has run.
NotStarted == [pc |-> "down", service |-> "none", i |-> 0, trace |-> <<>>]

\* logger.py has not been imported: the class has no instance and the root
\* logger has no handler.
NotConfigured ==
    [instance |-> <<>>, initialized |-> FALSE, handlers |-> <<>>,
     objects |-> 0, calls |-> 0, ret |-> <<>>, raised |-> "none"]

\* The hour of the day at which the Weather Service process is started:
\* late in the evening, so that the hours after it cross a midnight.
ProcessStart == 22

ServicesInit ==
    /\ now = 0
    /\ token = None
    /\ call = NoCall
    /\ users = {}
    /\ req = NoRequest
    /\ resp = NoResponse
    /\ utxns = NoRequestsInFlight
    /\ clock = 0
    /\ recs = {}
    /\ ctx = {}
    /\ areq = NoRequest
    /\ aresp = NoResponse
    /\ txns = NoRequestsInFlight
    /\ wclock = ProcessStart
    /\ weather_client = FALSE
    /\ locations = {}
    /\ forecasts = {}
    /\ api_request_logs = <<>>
    /\ wreq = NoRequest
    /\ wresp = NoResponse
    /\ wtxns = NoRequestsInFlight
    /\ fetch = NoFetch
    /\ boot = NotStarted
    /\ logging = NotConfigured

CreateAccessToken(data, expires_delta) ==
    /\ token' = Some(create_access_token(data, expires_delta, now))
    /\ call' = [op |-> "create_access_token", data |-> data,
                expires_delta |-> expires_delta]
    /\ UNCHANGED now
    /\ UNCHANGED userVars
    /\ UNCHANGED procVars
    /\ UNCHANGED advisorVars
    /\ UNCHANGED weatherVars

GetCurrentUser(credentials) ==
    /\ call' = [op |-> "get_current_user", credentials |-> credentials,
                result |-> get_current_user(credentials, now)]
    /\ UNCHANGED <<now, token>>
    /\ UNCHANGED userVars
    /\ UNCHANGED procVars
    /\ UNCHANGED advisorVars
    /\ UNCHANGED weatherVars

Tick ==
    /\ now < MaxNow
    /\ now' = now + 1
    /\ UNCHANGED <<token, call>>
    /\ UNCHANGED userVars
    /\ UNCHANGED procVars
    /\ UNCHANGED advisorVars
    /\ UNCHANGED weatherVars

AuthNext ==
    \/ \E sub \in Option(Usernames), uid \in Option(UserIds),
          delta \in Option(Lifetimes) :
          CreateAccessToken([sub |-> sub, user_id |-> uid], delta)
    \/ \E c \in (IF IsSome(token) THEN Presentable(Get(token)) ELSE {}) :
          GetCurrentUser(c)
    \/ Tick

SpecAuth == ServicesInit /\ [][AuthNext]_vars

(***************************************************************************)
(* The User Service's HTTP API: one action per request.                    *)
(***************************************************************************)
\* UserCreate bodies; preferred_wash_interval 15 fails validation.
UserCreates ==
    [username : Usernames, email : Emails, password : Passwords,
     city : {Some("Moscow")}, country : {Some("Unknown")},
     preferred_wash_interval : {7, 15}]

\* UserUpdate bodies: a field is None when the request does not set it,
\* Some(value) when it does (value None being an explicit null).
NoUpdate ==
    [city |-> None, country |-> None, last_wash_date |-> None,
     preferred_wash_interval |-> None]

UserUpdates ==
    [city : Option({Some("Kazan")}),
     country : Option({Some("Russia")}),
     last_wash_date : Option(Option(IsoDates)),
     preferred_wash_interval : Option({14})]

\* The bodies the API requests carry: an empty one, one field, and one that
\* fails validation.
ApiUserUpdates ==
    { NoUpdate,
      [NoUpdate EXCEPT !.city = Some(Some("Kazan"))],
      [NoUpdate EXCEPT !.preferred_wash_interval = Some(15)] }

\* Bearer credentials of a request: none, a server-signed token of a user
\* id, an expired one, and one signed with another key.
TokenOf(uid, exp, key) ==
    jwt_encode([sub |-> Some("alice"), user_id |-> Some(uid),
                exp |-> Some(exp)], key)

Credentials ==
    {None}
    \cup {Some(TokenOf(i, now + ACCESS_TOKEN_EXPIRE_MINUTES, SECRET_KEY))
             : i \in UserIds}
    \cup {Some(TokenOf(1, now - 1, SECRET_KEY)),
          Some(TokenOf(1, now + ACCESS_TOKEN_EXPIRE_MINUTES, OtherKey))}

NoCredentialsStatuses(credentials) ==
    IF credentials = None THEN {401, 403} ELSE {401}

FreshIds == UserIds \ {u.id : u \in users}

Respond(request, out) ==
    /\ req' = request
    /\ resp' = [status |-> out.status, body |-> out.body, crud |-> out.crud]
    /\ users' = out.users
    /\ UNCHANGED authVars
    /\ UNCHANGED procVars
    /\ UNCHANGED utxns
    /\ UNCHANGED advisorVars
    /\ UNCHANGED weatherVars

PostUsers(user_data, salt, id) ==
    Respond([op |-> "POST /api/users", body |-> user_data],
            IF ~UserCreateValid(user_data)
            THEN [status |-> 422, body |-> None, crud |-> NotCalled,
                  users |-> users]
            ELSE create_user_endpoint(users, user_data, salt, id))

PostLogin(login_data) ==
    Respond([op |-> "POST /api/auth/login", body |-> login_data],
            login(users, login_data, now))

GetUser(user_id) ==
    Respond([op |-> "GET /api/users/{user_id}", user_id |-> user_id],
            get_user(users, user_id))

PutUser(user_id, credentials, user_data, no_credentials_status) ==
    LET auth == SolveCurrentUser(credentials, no_credentials_status, now) IN
    Respond([op |-> "PUT /api/users/{user_id}", user_id |-> user_id,
             credentials |-> credentials, body |-> user_data],
            ProtectedRoute(users, auth, UserUpdateValid(user_data),
                update_user_endpoint(users, user_id, user_data, auth.value)))

PutWashDate(user_id, credentials, raw, no_credentials_status) ==
    LET auth == SolveCurrentUser(credentials, no_credentials_status, now)
        wash_date == ParseWashDate(raw)
    IN
    Respond([op |-> "PUT /api/users/{user_id}/wash-date", user_id |-> user_id,
             credentials |-> credentials, wash_date |-> raw],
            ProtectedRoute(users, auth, IsSome(wash_date),
                update_wash_date(users, user_id, Get(wash_date), auth.value)))

UserNext ==
    \/ \E d \in UserCreates, salt \in Salts, id \in FreshIds :
          PostUsers(d, salt, id)
    \/ \E u \in Usernames, p \in Passwords :
          PostLogin([username |-> u, password |-> p])
    \/ \E id \in UserIds : GetUser(id)
    \/ \E id \in UserIds, c \in Credentials, d \in ApiUserUpdates :
          \E st \in NoCredentialsStatuses(c) : PutUser(id, c, d, st)
    \/ \E id \in UserIds, c \in Credentials, raw \in Option(RawDates) :
          \E st \in NoCredentialsStatuses(c) : PutWashDate(id, c, raw, st)

SpecUser == ServicesInit /\ [][UserNext]_vars

(***************************************************************************)
(* The User Service's CRUD layer called directly: one action per call.     *)
(***************************************************************************)
Called(request, r) ==
    /\ req' = request
    /\ resp' = [ret |-> r.ret]
    /\ users' = r.users
    /\ UNCHANGED authVars
    /\ UNCHANGED procVars
    /\ UNCHANGED utxns
    /\ UNCHANGED advisorVars
    /\ UNCHANGED weatherVars

CrudCreateUser(user_data, salt, id) ==
    Called([op |-> "CRUD.create_user", user_data |-> user_data],
           create_user(users, user_data, salt, id))

CrudUpdateUser(user_id, user_data) ==
    Called([op |-> "CRUD.update_user", user_id |-> user_id,
            user_data |-> user_data],
           update_user(users, user_id, user_data))

CrudUpdateLastWashDate(user_id, wash_date) ==
    Called([op |-> "CRUD.update_last_wash_date", user_id |-> user_id,
            wash_date |-> wash_date],
           update_last_wash_date(users, user_id, wash_date))

CrudNext ==
    \/ \E d \in {c \in UserCreates :
                    UserCreateValid(c) /\ c.password = "testpass123"},
          id \in FreshIds :
          CrudCreateUser(d, "salt1", id)
    \/ \E id \in UserIds, d \in UserUpdates : CrudUpdateUser(id, d)
    \/ \E id \in UserIds, d \in IsoDates : CrudUpdateLastWashDate(id, d)

SpecUserCrud == ServicesInit /\ [][CrudNext]_vars

(***************************************************************************)
(* CRUD.create_user calls that overlap (user_service/app/crud.py).  Each   *)
(* call has its own session and yields at its three awaits: the SELECT by  *)
(* username, the SELECT by email, and the commit that sends the INSERT.    *)
(***************************************************************************)
UserCreatesInFlight ==
    [username : Usernames, email : Emails, password : {"testpass123"},
     city : {Some("Moscow")}, country : {Some("Unknown")},
     preferred_wash_interval : {7}]

CreateUserInFlight(k) == utxns[k].pc \notin {"idle", "returned"}

\* An INSERT that ignores the unique indexes.
users_unique_violation_NoConstraint(U, user) == FALSE

\* models.py: users.email and users.username are unique; an INSERT that
\* repeats a committed value fails with an IntegrityError.
users_unique_violation(U, user) ==
    \E u \in U : u.username = user.username \/ u.email = user.email

\* return None / return user; "except Exception" has caught what was raised.
ReturnFromCreateUser(k, ret, at) ==
    utxns' = [utxns EXCEPT ![k] =
                 [pc |-> "returned", user_data |-> utxns[k].user_data,
                  overlapped |-> utxns[k].overlapped, ret |-> ret,
                  raised |-> FALSE, at |-> at]]

\* create_user is called; overlapped: another call was in flight at some
\* moment of this one.
BeginCreateUser(k, user_data) ==
    /\ ~CreateUserInFlight(k)
    /\ Cardinality(users) <= MaxUsers
    /\ utxns' = [j \in 1..MaxInFlight |->
                    IF j = k
                    THEN [pc |-> "get_user_by_username",
                          user_data |-> user_data,
                          overlapped |->
                              \E i \in 1..MaxInFlight : CreateUserInFlight(i)]
                    ELSE IF CreateUserInFlight(j)
                    THEN [utxns[j] EXCEPT !.overlapped = TRUE]
                    ELSE utxns[j]]
    /\ UNCHANGED <<users, req, resp>>
    /\ UNCHANGED authVars
    /\ UNCHANGED procVars
    /\ UNCHANGED advisorVars
    /\ UNCHANGED weatherVars

\* existing_user = await CRUD.get_user_by_username(...)
SelectByUsername(k) ==
    /\ utxns[k].pc = "get_user_by_username"
    /\ IF IsSome(get_user_by_username(users, utxns[k].user_data.username))
       THEN ReturnFromCreateUser(k, None, "get_user_by_username")
       ELSE utxns' = [utxns EXCEPT ![k].pc = "get_user_by_email"]
    /\ UNCHANGED <<users, req, resp>>
    /\ UNCHANGED authVars
    /\ UNCHANGED procVars
    /\ UNCHANGED advisorVars
    /\ UNCHANGED weatherVars

\* existing_email = await CRUD.get_user_by_email(...)
SelectByEmail(k) ==
    /\ utxns[k].pc = "get_user_by_email"
    /\ IF IsSome(get_user_by_email(users, utxns[k].user_data.email))
       THEN ReturnFromCreateUser(k, None, "get_user_by_email")
       ELSE utxns' = [utxns EXCEPT ![k].pc = "commit"]
    /\ UNCHANGED <<users, req, resp>>
    /\ UNCHANGED authVars
    /\ UNCHANGED procVars
    /\ UNCHANGED advisorVars
    /\ UNCHANGED weatherVars

\* default=generate_uuid: an identifier no stored user has.
UnusedUserId(U) ==
    CHOOSE i \in 1..(Cardinality(U) + 1) : \A u \in U : u.id # i

\* session.add(user); await session.commit(): the INSERT is sent and
\* committed, or fails on a unique index, and then the except clause rolls
\* back and returns None.
CommitUser(k) ==
    /\ utxns[k].pc = "commit"
    /\ \E user \in {Get(create_user({}, utxns[k].user_data, "salt1",
                                    UnusedUserId(users)).ret)} :
          IF users_unique_violation(users, user)
          THEN /\ ReturnFromCreateUser(k, None, "commit")
               /\ UNCHANGED users
          ELSE /\ ReturnFromCreateUser(k, Some(user), "commit")
               /\ users' = users \cup {user}
    /\ UNCHANGED <<req, resp>>
    /\ UNCHANGED authVars
    /\ UNCHANGED procVars
    /\ UNCHANGED advisorVars
    /\ UNCHANGED weatherVars

UserSessionsNext ==
    \E k \in 1..MaxInFlight :
        \/ \E user_data \in UserCreatesInFlight : BeginCreateUser(k, user_data)
        \/ SelectByUsername(k)
        \/ SelectByEmail(k)
        \/ CommitUser(k)

SpecUserSessions == ServicesInit /\ [][UserSessionsNext]_vars

(***************************************************************************)
(* wash_advisor_service/app/config.py.  Probabilities are held in tenths   *)
(* and weights in tenths; a score is held in 1/ScoreUnit of a point.       *)
(***************************************************************************)
MAX_FORECAST_DAYS == 14
MIN_PRECIPITATION_THRESHOLD == 3
IDEAL_WASH_TEMPERATURE_MIN == 5
IDEAL_WASH_TEMPERATURE_MAX == 25
WIND_SPEED_THRESHOLD == 30
CACHE_RECOMMENDATION_HOURS == 24
WEIGHT_PRECIPITATION == 4
WEIGHT_TEMPERATURE == 3
WEIGHT_WIND == 2
WEIGHT_HUMIDITY == 1
ScoreUnit == 10000

\* A max that gives its second argument.
Max_Second(a, b) == b

Max(a, b) == IF a >= b THEN a ELSE b
Min(a, b) == IF a <= b THEN a ELSE b

\* datetime.now().date() of the clock, as a day number.
Today(t) == t \div 24

(***************************************************************************)
(* wash_advisor_service/app/schemas.py                                     *)
(***************************************************************************)
WashRecommendationDay(date, is_recommended, score, temperature, precipitation_probability, wind_speed, reason, factors) ==
    [date |-> date, is_recommended |-> is_recommended, score |-> score,
     temperature |-> temperature,
     precipitation_probability |-> precipitation_probability,
     wind_speed |-> wind_speed, reason |-> reason, factors |-> factors]

(***************************************************************************)
(* wash_advisor_service/app/advisor.py                                     *)
(***************************************************************************)
\* 100 * exp(-5 * p) for p = 0.0, 0.1 .. 1.0, in thousandths of a point.
PrecipScoreTable ==
    <<100000, 60653, 36788, 22313, 13534, 8208, 4979, 3020, 1832, 1111, 674>>

min_acceptable_score == 60 * ScoreUnit

\* WashAdvisorLogic._calculate_score
calculate_score(temp, precip_prob, wind_speed, humidity, is_rain_expected, is_temperature_optimal, is_wind_acceptable) ==
    LET precip_score ==
            IF IsSome(precip_prob) THEN PrecipScoreTable[Get(precip_prob) + 1]
            ELSE 100 * 1000
        temp_score ==
            IF temp = None THEN 50
            ELSE LET x == Get(temp) IN
                 IF 15 <= x /\ x <= 22 THEN 100
                 ELSE IF (10 <= x /\ x < 15) \/ (22 < x /\ x <= 25) THEN 80
                 ELSE IF (5 <= x /\ x < 10) \/ (25 < x /\ x <= 30) THEN 60
                 ELSE IF x < 5 THEN Max(0, 60 - (5 - x) * 10)
                 ELSE Max(0, 60 - (x - 30) * 10)
        wind_score ==
            IF wind_speed = None THEN 100
            ELSE LET w == Get(wind_speed) IN
                 IF w <= 15 THEN 100
                 ELSE IF w <= 25 THEN 80
                 ELSE IF w <= 35 THEN 50
                 ELSE 20
        humidity_score ==
            IF humidity = None THEN 80
            ELSE LET h == Get(humidity) IN
                 IF 40 <= h /\ h <= 60 THEN 100
                 ELSE IF (30 <= h /\ h < 40) \/ (60 < h /\ h <= 70) THEN 80
                 ELSE IF (20 <= h /\ h < 30) \/ (70 < h /\ h <= 80) THEN 60
                 ELSE 40
        penalty ==
            (IF is_rain_expected THEN 40 ELSE 0)
            + (IF ~is_temperature_optimal THEN 20 ELSE 0)
            + (IF ~is_wind_acceptable THEN 20 ELSE 0)
        total_score ==
            WEIGHT_PRECIPITATION * precip_score
            + 1000 * (WEIGHT_TEMPERATURE * temp_score
                      + WEIGHT_WIND * wind_score
                      + WEIGHT_HUMIDITY * humidity_score)
            - ScoreUnit * penalty
    IN Max(0, Min(100 * ScoreUnit, total_score))

\* WashAdvisorLogic._generate_reason: the text is held as the band its
\* opening words name and the list of the reasons it joins.
generate_reason(is_rain_expected, is_temperature_optimal, is_wind_acceptable, precip_prob, temp, wind_speed, score, user_context) ==
    LET rain == IF is_rain_expected /\ IsSome(precip_prob)
                THEN <<"rain">> ELSE <<>>
        temperature ==
            IF ~is_temperature_optimal /\ IsSome(temp)
            THEN IF Get(temp) < 5 THEN <<"low temperature">>
                 ELSE IF Get(temp) > 25 THEN <<"high temperature">>
                 ELSE <<>>
            ELSE <<>>
        wind == IF ~is_wind_acceptable /\ IsSome(wind_speed)
                THEN <<"strong wind">> ELSE <<>>
        interval ==
            IF IsSome(user_context)
                  /\ IsSome(Get(user_context).days_since_last_wash)
            THEN IF Get(user_context).is_interval_optimal = Some(TRUE)
                 THEN <<"optimal interval">>
                 ELSE IF Get(Get(user_context).days_since_last_wash) < 7
                 THEN <<"recent wash">>
                 ELSE <<>>
            ELSE <<>>
        reasons == rain \o temperature \o wind \o interval
        band ==
            IF score >= 80 * ScoreUnit
            THEN IF reasons = <<>> THEN "excellent" ELSE "good, but"
            ELSE IF score >= 60 * ScoreUnit
            THEN IF reasons # <<>> THEN "satisfactory, however"
                 ELSE "satisfactory"
            ELSE IF score >= 40 * ScoreUnit THEN "unfavourable"
            ELSE "very bad"
    IN [band |-> band, reasons |-> reasons]

\* A variant that tests the recent wash before the interval.
user_context_adjustment_PenaltyFirst(score, user_context) ==
    IF IsSome(user_context)
    THEN LET days_since == Get(user_context).days_since_last_wash
             is_interval_optimal == Get(user_context).is_interval_optimal
         IN IF IsSome(days_since) /\ Get(days_since) < 7
            THEN Max(0, score - 20 * ScoreUnit)
            ELSE IF IsSome(days_since) /\ is_interval_optimal = Some(TRUE)
            THEN Min(100 * ScoreUnit, score + 10 * ScoreUnit)
            ELSE score
    ELSE score

\* "if user_context: ... if days_since is not None and is_interval_optimal:
\* ... elif days_since is not None and days_since < 7: ..." of
\* analyze_weather_day: the score after the adjustment.
user_context_adjustment(score, user_context) ==
    IF IsSome(user_context)
    THEN LET days_since == Get(user_context).days_since_last_wash
             is_interval_optimal == Get(user_context).is_interval_optimal
         IN IF IsSome(days_since) /\ is_interval_optimal = Some(TRUE)
            THEN Min(100 * ScoreUnit, score + 10 * ScoreUnit)
            ELSE IF IsSome(days_since) /\ Get(days_since) < 7
            THEN Max(0, score - 20 * ScoreUnit)
            ELSE score
    ELSE score

\* WashAdvisorLogic.analyze_weather_day; user_context is None for the empty
\* dict (falsy).
analyze_weather_day(weather_data, user_context) ==
    LET temp == weather_data.temperature_avg
        precip_prob == weather_data.precipitation_probability
        wind_speed == weather_data.wind_speed
        humidity == weather_data.humidity
        is_rain_expected ==
            IsSome(precip_prob)
            /\ Get(precip_prob) > MIN_PRECIPITATION_THRESHOLD
        is_temperature_optimal ==
            IsSome(temp)
            /\ IDEAL_WASH_TEMPERATURE_MIN <= Get(temp)
            /\ Get(temp) <= IDEAL_WASH_TEMPERATURE_MAX
        is_wind_acceptable ==
            IsSome(wind_speed) /\ Get(wind_speed) <= WIND_SPEED_THRESHOLD
        base == calculate_score(temp, precip_prob, wind_speed, humidity,
                                is_rain_expected, is_temperature_optimal,
                                is_wind_acceptable)
        score == user_context_adjustment(base, user_context)
    IN [date |-> weather_data.date,
        temperature |-> temp,
        precipitation_probability |-> precip_prob,
        wind_speed |-> wind_speed,
        humidity |-> humidity,
        is_rain_expected |-> is_rain_expected,
        is_temperature_optimal |-> is_temperature_optimal,
        is_wind_acceptable |-> is_wind_acceptable,
        score |-> score,
        reason |-> generate_reason(is_rain_expected, is_temperature_optimal,
                                   is_wind_acceptable, precip_prob, temp,
                                   wind_speed, score, user_context)]

\* The factors dict of a WashRecommendationDay built from an analysed day.
FactorsOf(day) ==
    [is_rain_expected |-> day.is_rain_expected,
     is_temperature_optimal |-> day.is_temperature_optimal,
     is_wind_acceptable |-> day.is_wind_acceptable,
     humidity |-> day.humidity]

FirstBest_Head(days) == days[1]

\* sorted(days, key=score, reverse=True)[0]: the first day of the list that
\* has the highest score (the sort is stable).
FirstBest(days) ==
    LET i == CHOOSE k \in 1..Len(days) :
                 /\ \A j \in 1..Len(days) : days[j].score <= days[k].score
                 /\ \A j \in 1..(k - 1) : days[j].score < days[k].score
    IN days[i]

Acceptable(day) == day.score # 0 /\ day.score >= min_acceptable_score

\* WashAdvisorLogic.find_best_wash_day
find_best_wash_day(analyzed_days, user_context) ==
    IF analyzed_days = <<>> THEN None
    ELSE LET acceptable_days == SelectSeq(analyzed_days, Acceptable)
             best_day == IF acceptable_days = <<>>
                         THEN FirstBest(analyzed_days)
                         ELSE FirstBest(acceptable_days)
         IN Some(WashRecommendationDay(
                     best_day.date,
                     IF best_day.score # 0
                     THEN best_day.score >= min_acceptable_score ELSE FALSE,
                     best_day.score,
                     best_day.temperature,
                     best_day.precipitation_probability,
                     best_day.wind_speed,
                     best_day.reason,
                     FactorsOf(best_day)))

\* WashAdvisorLogic.generate_all_days_recommendations
generate_all_days_recommendations(analyzed_days) ==
    [i \in 1..Len(analyzed_days) |->
        LET day == analyzed_days[i] IN
        WashRecommendationDay(day.date,
                              day.score >= min_acceptable_score,
                              day.score,
                              day.temperature,
                              day.precipitation_probability,
                              day.wind_speed,
                              day.reason,
                              FactorsOf(day))]

(***************************************************************************)
(* wash_advisor_service/app/crud.py.  Each operation yields what it        *)
(* returns and the table after it.                                         *)
(***************************************************************************)
\* CRUD.create_or_update_user_context at time t: [ret, ctx].
create_or_update_user_context(C, user_id, context_data, t) ==
    LET context == [user_id |-> user_id,
                    city |-> context_data.city,
                    country |-> context_data.country,
                    last_wash_date |-> context_data.last_wash_date,
                    preferred_wash_interval |->
                        context_data.preferred_wash_interval,
                    last_sync |-> t]
    IN [ret |-> Some(context),
        ctx |-> {c \in C : c.user_id # user_id} \cup {context}]

\* CRUD.calculate_user_context at time t.
calculate_user_context(context, t) ==
    IF context.last_wash_date = None
    THEN [days_since_last_wash |-> None, is_interval_optimal |-> None]
    ELSE LET days_since == Today(t) - Get(context.last_wash_date) IN
         [days_since_last_wash |-> Some(days_since),
          is_interval_optimal |->
              Some(days_since >= context.preferred_wash_interval)]

get_cached_recommendation_AnyVerdict(R, user_id, location, t) ==
    LET cache_limit == t - CACHE_RECOMMENDATION_HOURS
        rows == {r \in R : /\ r.user_id = user_id
                           /\ r.location = location
                           /\ r.created_at >= cache_limit}
        first == {r \in rows : \A q \in rows : q.created_at <= r.created_at}
    IN IF first = {} THEN {None} ELSE {Some(r) : r \in first}

\* A variant whose query does not filter on the location.
get_cached_recommendation_AnyLocation(R, user_id, location, t) ==
    LET cache_limit == t - CACHE_RECOMMENDATION_HOURS
        rows == {r \in R : /\ r.user_id = user_id
                           /\ r.created_at >= cache_limit
                           /\ r.is_recommended = TRUE}
        first == {r \in rows : \A q \in rows : q.created_at <= r.created_at}
    IN IF first = {} THEN {None} ELSE {Some(r) : r \in first}

\* CRUD.get_cached_recommendation at time t: the results the query can give.
\* "order by created_at desc limit 1" gives any one of the rows that share
\* the latest created_at; None when no row passes the filter.
get_cached_recommendation(R, user_id, location, t) ==
    LET cache_limit == t - CACHE_RECOMMENDATION_HOURS
        rows == {r \in R : /\ r.user_id = user_id
                           /\ r.location = location
                           /\ r.created_at >= cache_limit
                           /\ r.is_recommended = TRUE}
        first == {r \in rows : \A q \in rows : q.created_at <= r.created_at}
    IN IF first = {} THEN {None} ELSE {Some(r) : r \in first}

\* CRUD.create_recommendation at time t: [ret, recs]; id is the uuid of the
\* new row, weather_data the forecast day (None for the empty dict),
\* user_context the metrics (None for the empty dict).
create_recommendation(R, user_id, location, recommendation_date, weather_data, analysis_results, user_context, t, id) ==
    LET recommendation ==
            [id |-> id,
             user_id |-> user_id,
             location |-> location,
             recommendation_date |-> recommendation_date,
             temperature |-> IF weather_data = None THEN None
                             ELSE Get(weather_data).temperature_avg,
             precipitation_probability |->
                 IF weather_data = None THEN None
                 ELSE Get(weather_data).precipitation_probability,
             wind_speed |-> IF weather_data = None THEN None
                            ELSE Get(weather_data).wind_speed,
             humidity |-> IF weather_data = None THEN None
                          ELSE Get(weather_data).humidity,
             score |-> analysis_results.score,
             is_recommended |-> analysis_results.is_recommended,
             reason |-> analysis_results.reason,
             is_rain_expected |-> analysis_results.is_rain_expected,
             is_temperature_optimal |->
                 analysis_results.is_temperature_optimal,
             is_wind_acceptable |-> analysis_results.is_wind_acceptable,
             days_since_last_wash |->
                 IF IsSome(user_context)
                 THEN Get(user_context).days_since_last_wash ELSE None,
             is_interval_optimal |->
                 IF IsSome(user_context)
                 THEN Get(user_context).is_interval_optimal ELSE None,
             created_at |-> t,
             expires_at |-> t + 24]
    IN [ret |-> Some(recommendation), recs |-> R \cup {recommendation}]

(***************************************************************************)
(* wash_advisor_service/app/main.py: POST /api/recommendations             *)
(***************************************************************************)
\* "a or b" on optional numbers: a unless it is None or zero.
PyOr(a, b) == IF a = None \/ a = Some(0) THEN b ELSE a

cache_lookup_Skip(R, request, location, t) == {None}

cache_lookup_IgnoreForceRefresh(R, request, location, t) ==
    get_cached_recommendation(R, request.user_id, location, t)

\* A variant that consults the cache only for the default number of days.
cache_lookup_DefaultDaysOnly(R, request, location, t) ==
    IF ~request.force_refresh /\ request.days = 7
    THEN get_cached_recommendation(R, request.user_id, location, t)
    ELSE {None}

\* "if not request.force_refresh: cached_rec = get_cached_recommendation()"
cache_lookup(R, request, location, t) ==
    IF ~request.force_refresh
    THEN get_cached_recommendation(R, request.user_id, location, t)
    ELSE {None}

\* The parameters api_client.get_weather_forecast sends.
WeatherCall(location, days) ==
    [city |-> location, days |-> Min(days, MAX_FORECAST_DAYS)]

\* An HTTPException leaves the handler: get_db rolls the session back, so
\* the tables are as before the request.
Raise_AsServerError(status_code, R, C, weather_call) ==
    [status |-> 500, body |-> None, recs |-> R, ctx |-> C,
     weather_call |-> weather_call]

Raise(status_code, R, C, weather_call) ==
    [status |-> status_code, body |-> None, recs |-> R, ctx |-> C,
     weather_call |-> weather_call]

\* The loop that turns the analysed days into WashRecommendationDay objects:
\* day i takes its date and weather from forecast_days[i].
ConvertDays(forecast_days, all_days_analysis) ==
    [i \in 1..Len(all_days_analysis) |->
        WashRecommendationDay(
            forecast_days[i].date,
            all_days_analysis[i].is_recommended,
            all_days_analysis[i].score,
            PyOr(forecast_days[i].temperature_avg, None),
            forecast_days[i].precipitation_probability,
            forecast_days[i].wind_speed,
            all_days_analysis[i].reason,
            all_days_analysis[i].factors)]

\* "if best_day_analysis and day_analysis['date'] == best_day_analysis['date']:
\* best_day = rec_day": the last day of the loop whose date matches.
PickBestDay(all_days, all_days_analysis, best_day_analysis) ==
    IF best_day_analysis = None THEN None
    ELSE LET matches == {i \in 1..Len(all_days) :
                            all_days_analysis[i].date
                                = Get(best_day_analysis).date}
         IN IF matches = {} THEN None
            ELSE Some(all_days[CHOOSE i \in matches :
                                  \A j \in matches : j <= i])

\* next((day for day in forecast_days if day['date'] == best_day.date), {})
WeatherDayData(forecast_days, date) ==
    LET same == {i \in 1..Len(forecast_days) : forecast_days[i].date = date}
    IN IF same = {} THEN None
       ELSE Some(forecast_days[CHOOSE i \in same : \A j \in same : i <= j])

\* A variant that keeps one row per (user, city): the new row takes the place
\* of the earlier ones.
StoreBestDay_ReplacingRows(R, request, location, forecast_days, best_day, context_metrics, t, id) ==
    IF best_day = None THEN R
    ELSE create_recommendation(
             {r \in R : r.user_id # request.user_id \/ r.location # location},
             request.user_id, location, Get(best_day).date,
             WeatherDayData(forecast_days, Get(best_day).date),
             [is_recommended |-> Get(best_day).is_recommended,
              score |-> Get(best_day).score,
              reason |-> Get(best_day).reason,
              is_rain_expected |-> Get(best_day).factors.is_rain_expected,
              is_temperature_optimal |->
                  Get(best_day).factors.is_temperature_optimal,
              is_wind_acceptable |->
                  Get(best_day).factors.is_wind_acceptable],
             context_metrics, t, id).recs

\* "if best_day: ... create_recommendation(...)": the table after it.
StoreBestDay(R, request, location, forecast_days, best_day, context_metrics, t, id) ==
    IF best_day = None THEN R
    ELSE create_recommendation(
             R, request.user_id, location, Get(best_day).date,
             WeatherDayData(forecast_days, Get(best_day).date),
             [is_recommended |-> Get(best_day).is_recommended,
              score |-> Get(best_day).score,
              reason |-> Get(best_day).reason,
              is_rain_expected |-> Get(best_day).factors.is_rain_expected,
              is_temperature_optimal |->
                  Get(best_day).factors.is_temperature_optimal,
              is_wind_acceptable |->
                  Get(best_day).factors.is_wind_acceptable],
             context_metrics, t, id).recs

\* The WashRecommendationResponse of the handler.
WashRecommendationResponse(request, location, context_metrics, best_day, all_days, cached) ==
    [user_id |-> request.user_id,
     location |-> location,
     days_since_last_wash |->
         IF IsSome(context_metrics)
         THEN Get(context_metrics).days_since_last_wash ELSE None,
     is_interval_optimal |->
         IF IsSome(context_metrics)
         THEN Get(context_metrics).is_interval_optimal ELSE None,
     best_day |-> best_day,
     all_days |-> all_days,
     cached |-> cached]

\* The analysed forecast is converted, the best day, if there is one, is
\* stored, and the response is built.
AnswerFresh(R, C2, request, location, context_metrics, forecast_days, all_days_analysis, best_day_analysis, weather_call, t, id) ==
    { [status |-> 200,
       body |-> Some(WashRecommendationResponse(
                         request, location, context_metrics, best_day,
                         all_days, FALSE)),
       recs |-> StoreBestDay(R, request, location, forecast_days, best_day,
                             context_metrics, t, id),
       ctx |-> C2,
       weather_call |-> weather_call]
      : <<all_days, best_day>> \in
           { <<days, PickBestDay(days, all_days_analysis, best_day_analysis)>>
             : days \in {ConvertDays(forecast_days, all_days_analysis)} } }

\* The "if not cached" branch: the forecast is fetched and analysed.  The
\* result is the one outcome of the branch, as a set.
FreshRecommendation(R, C, C2, request, location, context_metrics, weather_data, t, id) ==
    IF weather_data = None
    THEN {Raise(404, R, C, Some(WeatherCall(location, request.days)))}
    ELSE UNION
         { AnswerFresh(R, C2, request, location, context_metrics,
                       Get(weather_data).forecast,
                       generate_all_days_recommendations(analyzed_days),
                       find_best_wash_day(analyzed_days, context_metrics),
                       Some(WeatherCall(location, request.days)), t, id)
           : analyzed_days \in
               { [i \in 1..Len(Get(weather_data).forecast) |->
                     analyze_weather_day(Get(weather_data).forecast[i],
                                         context_metrics)] } }

\* The "else" branch: the response is built from the cached row.
CachedRecommendation(R, C2, request, location, context_metrics, cached_rec) ==
    LET cached_day ==
            WashRecommendationDay(
                cached_rec.recommendation_date,
                cached_rec.is_recommended,
                cached_rec.score,
                cached_rec.temperature,
                cached_rec.precipitation_probability,
                cached_rec.wind_speed,
                cached_rec.reason,
                [is_rain_expected |-> cached_rec.is_rain_expected,
                 is_temperature_optimal |-> cached_rec.is_temperature_optimal,
                 is_wind_acceptable |-> cached_rec.is_wind_acceptable,
                 humidity |-> cached_rec.humidity])
    IN [status |-> 200,
        body |-> Some(WashRecommendationResponse(
                          request, location, context_metrics,
                          IF cached_rec.is_recommended
                          THEN Some(cached_day) ELSE None,
                          <<cached_day>>, TRUE)),
        recs |-> R, ctx |-> C2, weather_call |-> None]

\* get_wash_recommendation at time t: the outcomes the request can have
\* (one per result the cache query can give), each with the response, the
\* tables after the request and the call made to the Weather Service.
\* user_info and weather_data are what api_client got from the other
\* services (None: not found, an error, or a timeout).
get_wash_recommendation(R, C, request, user_info, weather_data, t, id) ==
    IF user_info = None THEN {Raise(404, R, C, None)}
    ELSE IF ~Get(user_info).has_city THEN {Raise(400, R, C, None)}
    ELSE IF Get(user_info).city = None THEN {Raise(400, R, C, None)}
    ELSE LET location == Get(Get(user_info).city)
             context_data ==
                 [city |-> Get(user_info).city,
                  country |-> Get(user_info).country,
                  last_wash_date |-> Get(user_info).last_wash_date,
                  preferred_wash_interval |->
                      Get(user_info).preferred_wash_interval]
             user_context ==
                 create_or_update_user_context(C, request.user_id,
                                               context_data, t)
             context_metrics ==
                 IF user_context.ret = None THEN None
                 ELSE Some(calculate_user_context(Get(user_context.ret), t))
         IN UNION
            { IF cached_rec = None
              THEN FreshRecommendation(R, C, user_context.ctx, request,
                                       location, context_metrics,
                                       weather_data, t, id)
              ELSE {CachedRecommendation(R, user_context.ctx, request,
                                         location, context_metrics,
                                         Get(cached_rec))}
              : cached_rec \in cache_lookup(R, request, location, t) }

(***************************************************************************)
(* The Wash-Advisor Service's HTTP API, with the answers of the User       *)
(* Service and the Weather Service as inputs of a request.                 *)
(***************************************************************************)
AdvisorUserIds == {"u1", "u2"}

Requests ==
    [user_id : AdvisorUserIds, days : {7}, force_refresh : BOOLEAN]

\* What GET /api/users/{id} can answer: nothing usable (None), a profile
\* without a city key, a profile whose city is null, a profile in Moscow
\* that has no wash on record and a profile in Kazan whose last wash is two
\* days before day 0.  The profile of u1 changes between requests, that of
\* u2 does not.
Profile(has_city, city, last_wash_date) ==
    [city |-> city, country |-> Some("Russia"),
     last_wash_date |-> last_wash_date, preferred_wash_interval |-> 7,
     has_city |-> has_city]

ChangingUserInfos ==
    { None,
      Some(Profile(FALSE, None, None)),
      Some(Profile(TRUE, None, None)),
      Some(Profile(TRUE, Some("Moscow"), None)),
      Some(Profile(TRUE, Some("Kazan"), Some(0 - 2))) }

SteadyUserInfos == { None, Some(Profile(TRUE, Some("Moscow"), None)) }

\* "if not user_info" / "'city' not in user_info" / "if not location"
HasCity(user_info) ==
    /\ user_info # None
    /\ Get(user_info).has_city
    /\ Get(user_info).city # None

UserInfos(user_id) ==
    IF user_id = "u1" THEN ChangingUserInfos ELSE SteadyUserInfos

\* Forecast days: a fine day and a storm.
ForecastDay(kind, date) ==
    IF kind = "fine"
    THEN [date |-> date, temperature_avg |-> Some(20),
          precipitation_probability |-> Some(0), wind_speed |-> Some(10),
          humidity |-> Some(50)]
    ELSE [date |-> date, temperature_avg |-> Some(20),
          precipitation_probability |-> Some(8), wind_speed |-> Some(40),
          humidity |-> Some(90)]

\* What GET /api/weather can answer: nothing usable (None), or a forecast of
\* up to two days from today on.
Forecasts == {<<>>, <<"fine">>, <<"storm">>, <<"storm", "fine">>}

WeatherAnswer(kinds, t) ==
    IF kinds = None THEN None
    ELSE Some([forecast |->
                  [i \in 1..Len(Get(kinds)) |->
                      ForecastDay(Get(kinds)[i], Today(t) + i - 1)]])

PostRecommendations(request, user_info, weather_data) ==
    \E out \in get_wash_recommendation(recs, ctx, request, user_info,
                                       weather_data, clock,
                                       Cardinality(recs) + 1) :
        /\ Cardinality(out.recs) <= MaxRecs
        /\ areq' = [op |-> "POST /api/recommendations", body |-> request,
                    user_info |-> user_info]
        /\ aresp' = [status |-> out.status, body |-> out.body,
                     weather_call |-> out.weather_call,
                     forecast |-> IF out.weather_call = None THEN None
                                  ELSE Some(weather_data)]
        /\ recs' = out.recs
        /\ ctx' = out.ctx
        /\ UNCHANGED clock
        /\ UNCHANGED authVars
        /\ UNCHANGED procVars
        /\ UNCHANGED userVars
        /\ UNCHANGED weatherVars
        /\ UNCHANGED txns

\* Time passes between two requests.
Advance ==
    /\ clock + CACHE_RECOMMENDATION_HOURS <= MaxClock
    /\ clock' = clock + CACHE_RECOMMENDATION_HOURS
    /\ areq' = NoRequest
    /\ aresp' = NoResponse
    /\ UNCHANGED <<recs, ctx>>
    /\ UNCHANGED authVars
    /\ UNCHANGED procVars
    /\ UNCHANGED userVars
    /\ UNCHANGED weatherVars
    /\ UNCHANGED txns

AdvisorNext ==
    \/ \E request \in Requests, kinds \in Option(Forecasts) :
          \E user_info \in UserInfos(request.user_id),
             weather_data \in {WeatherAnswer(kinds, clock)} :
              PostRecommendations(request, user_info, weather_data)
    \/ Advance

SpecAdvisor == ServicesInit /\ [][AdvisorNext]_vars

(***************************************************************************)
(* The same API asked by one user for forecasts of different lengths: the  *)
(* days field of the request takes values of its range 1..14               *)
(* (schemas.py 15).                                                        *)
(***************************************************************************)
RequestedDays == {1, 7, 14}

DaysRequests ==
    [user_id : {"u2"}, days : RequestedDays, force_refresh : BOOLEAN]

AdvisorDaysNext ==
    \/ \E request \in DaysRequests, kinds \in Option(Forecasts) :
          \E user_info \in SteadyUserInfos,
             weather_data \in {WeatherAnswer(kinds, clock)} :
              PostRecommendations(request, user_info, weather_data)
    \/ Advance

SpecAdvisorDays == ServicesInit /\ [][AdvisorDaysNext]_vars

(***************************************************************************)
(* The Wash-Advisor Service's CRUD layer called directly.                  *)
(***************************************************************************)
\* The analysis_results a caller passes: a recommended and a rejected day.
AnalysisResults ==
    { [is_recommended |-> TRUE, score |-> 100 * ScoreUnit,
       reason |-> [band |-> "excellent", reasons |-> <<>>],
       is_rain_expected |-> FALSE, is_temperature_optimal |-> TRUE,
       is_wind_acceptable |-> TRUE],
      [is_recommended |-> FALSE, score |-> 0,
       reason |-> [band |-> "very bad", reasons |-> <<"rain">>],
       is_rain_expected |-> TRUE, is_temperature_optimal |-> TRUE,
       is_wind_acceptable |-> FALSE] }

CrudCreateRecommendation(user_id, location, analysis_results) ==
    LET r == create_recommendation(recs, user_id, location, Today(clock),
                                   None, analysis_results, None, clock,
                                   Cardinality(recs) + 1)
    IN /\ Cardinality(recs) < MaxRecs
       /\ areq' = [op |-> "CRUD.create_recommendation", user_id |-> user_id,
                   location |-> location]
       /\ aresp' = [ret |-> r.ret]
       /\ recs' = r.recs
       /\ UNCHANGED <<clock, ctx>>
       /\ UNCHANGED authVars
       /\ UNCHANGED procVars
       /\ UNCHANGED userVars
       /\ UNCHANGED weatherVars
       /\ UNCHANGED txns

CrudGetCachedRecommendation(user_id, location) ==
    \E ret \in get_cached_recommendation(recs, user_id, location, clock) :
        /\ areq' = [op |-> "CRUD.get_cached_recommendation",
                    user_id |-> user_id, location |-> location]
        /\ aresp' = [ret |-> ret]
        /\ UNCHANGED <<clock, recs, ctx>>
        /\ UNCHANGED authVars
        /\ UNCHANGED procVars
        /\ UNCHANGED userVars
        /\ UNCHANGED weatherVars
        /\ UNCHANGED txns

AdvisorCrudNext ==
    \/ \E user_id \in AdvisorUserIds, location \in Cities,
          analysis_results \in AnalysisResults :
          CrudCreateRecommendation(user_id, location, analysis_results)
    \/ \E user_id \in AdvisorUserIds, location \in Cities :
          CrudGetCachedRecommendation(user_id, location)
    \/ Advance

SpecAdvisorCrud == ServicesInit /\ [][AdvisorCrudNext]_vars

(***************************************************************************)
(* Requests to POST /api/recommendations that overlap.  Each request has   *)
(* its own session (database.py get_db): it fetches the profile, selects   *)
(* the user's context row, flushes the insert or update, and at the end    *)
(* commits (200) or rolls back (an HTTPException).  The database runs the  *)
(* sessions at READ COMMITTED: a SELECT sees the committed rows, a write to *)
(* a row or to a unique key another session has written waits until that   *)
(* session ends.                                                           *)
(***************************************************************************)
\* main.py: the UserContextData built from the profile.
UserContextDataOf(user_info) ==
    [city |-> Get(user_info).city,
     country |-> Get(user_info).country,
     last_wash_date |-> Get(user_info).last_wash_date,
     preferred_wash_interval |-> Get(user_info).preferred_wash_interval]

\* CRUD.get_user_context: whether the session sees a row of the user.
get_user_context(C, user_id) == {c \in C : c.user_id = user_id}

\* The row create_or_update_user_context leaves for the user: every field
\* taken from context_data, last_sync from the clock.
UserContextRow(user_id, context_data, t) ==
    [user_id |-> user_id,
     city |-> context_data.city,
     country |-> context_data.country,
     last_wash_date |-> context_data.last_wash_date,
     preferred_wash_interval |-> context_data.preferred_wash_interval,
     last_sync |-> t]

unique_violation_NoConstraint(C, user_id) == FALSE

\* models.py: user_context.user_id is unique; an INSERT of a user_id that a
\* committed row holds fails with an IntegrityError.
unique_violation(C, user_id) == \E c \in C : c.user_id = user_id

InFlight(k) == txns[k].pc # "idle"

\* The session of slot k waits while another session holds an uncommitted
\* write for the same user.
MustWait(k) ==
    \E j \in 1..MaxInFlight :
        /\ j # k
        /\ txns[j].pc = "flushed"
        /\ txns[j].user_id = txns[k].user_id
        /\ IsSome(txns[j].pending)

\* The request arrives and the profile is fetched.  Without a profile or a
\* city the handler answers at once (404, 400) and touches no table.
StartRequest(k, user_id, user_info) ==
    /\ ~InFlight(k)
    /\ IF ~HasCity(user_info)
       THEN /\ areq' = [op |-> "POST /api/recommendations",
                        user_id |-> user_id, user_info |-> user_info,
                        alone |-> \A j \in 1..MaxInFlight :
                                     InFlight(j) => txns[j].user_id # user_id]
            /\ aresp' = [status |-> IF user_info = None THEN 404 ELSE 400]
            /\ UNCHANGED txns
       ELSE /\ txns' =
                  [j \in 1..MaxInFlight |->
                      IF j = k
                      THEN [pc |-> "fetched", user_id |-> user_id,
                            user_info |-> user_info,
                            alone |-> \A i \in 1..MaxInFlight :
                                         InFlight(i) =>
                                             txns[i].user_id # user_id]
                      ELSE IF InFlight(j) /\ txns[j].user_id = user_id
                      THEN [txns[j] EXCEPT !.alone = FALSE]
                      ELSE txns[j]]
            /\ areq' = NoRequest
            /\ aresp' = NoResponse
    /\ UNCHANGED <<clock, recs, ctx>>
    /\ UNCHANGED authVars
    /\ UNCHANGED procVars
    /\ UNCHANGED userVars
    /\ UNCHANGED weatherVars

\* create_or_update_user_context, first half: existing = get_user_context().
SelectContext(k) ==
    /\ txns[k].pc = "fetched"
    /\ txns' = [txns EXCEPT ![k] =
                  [pc |-> "selected", user_id |-> txns[k].user_id,
                   user_info |-> txns[k].user_info,
                   alone |-> txns[k].alone,
                   existing |->
                       get_user_context(ctx, txns[k].user_id) # {}]]
    /\ areq' = NoRequest
    /\ aresp' = NoResponse
    /\ UNCHANGED <<clock, recs, ctx>>
    /\ UNCHANGED authVars
    /\ UNCHANGED procVars
    /\ UNCHANGED userVars
    /\ UNCHANGED weatherVars

\* create_or_update_user_context, second half: the flush of the UPDATE or of
\* the INSERT.  An INSERT that meets a committed row of the user raises an
\* IntegrityError; the function rolls back and returns None, and the
\* handler goes on without a context.
FlushContext(k) ==
    /\ txns[k].pc = "selected"
    /\ ~MustWait(k)
    /\ txns' = [txns EXCEPT ![k] =
                  [pc |-> "flushed", user_id |-> txns[k].user_id,
                   user_info |-> txns[k].user_info,
                   alone |-> txns[k].alone,
                   pending |->
                       IF ~txns[k].existing
                          /\ unique_violation(ctx, txns[k].user_id)
                       THEN None
                       ELSE Some(UserContextRow(
                                     txns[k].user_id,
                                     UserContextDataOf(txns[k].user_info),
                                     clock)),
                   insert |-> ~txns[k].existing]]
    /\ areq' = NoRequest
    /\ aresp' = NoResponse
    /\ UNCHANGED <<clock, recs, ctx>>
    /\ UNCHANGED authVars
    /\ UNCHANGED procVars
    /\ UNCHANGED userVars
    /\ UNCHANGED weatherVars

\* The rows of user_context after the session's write is committed.
Committed(C, txn) ==
    IF txn.pending = None THEN C
    ELSE IF txn.insert THEN C \cup {Get(txn.pending)}
    ELSE {c \in C : c.user_id # txn.user_id} \cup {Get(txn.pending)}

\* The rest of the handler ends with a response: get_db commits after a
\* 200 and rolls back after an HTTPException (404: no forecast).
FinishRequest(k, status_code) ==
    /\ txns[k].pc = "flushed"
    /\ ctx' = IF status_code = 200 THEN Committed(ctx, txns[k]) ELSE ctx
    /\ txns' = [txns EXCEPT ![k] = Idle]
    /\ areq' = [op |-> "POST /api/recommendations",
                user_id |-> txns[k].user_id,
                user_info |-> txns[k].user_info,
                alone |-> txns[k].alone]
    /\ aresp' = [status |-> status_code]
    /\ UNCHANGED <<clock, recs>>
    /\ UNCHANGED authVars
    /\ UNCHANGED procVars
    /\ UNCHANGED userVars
    /\ UNCHANGED weatherVars

AdvisorSessionsNext ==
    \E k \in 1..MaxInFlight :
        \/ \E user_id \in AdvisorUserIds :
              \E user_info \in UserInfos(user_id) :
                  StartRequest(k, user_id, user_info)
        \/ SelectContext(k)
        \/ FlushContext(k)
        \/ \E status_code \in {200, 404} : FinishRequest(k, status_code)

SpecAdvisorSessions == ServicesInit /\ [][AdvisorSessionsNext]_vars

(***************************************************************************)
(* WashAdvisorLogic.find_best_wash_day applied to lists of analysed days   *)
(* of every mix of scores around the threshold.                            *)
(***************************************************************************)
MaxDays == 3

\* Scores: 0, 30, 45, just below 60, 60 and 85.
DayScores ==
    {0, 30 * ScoreUnit, 45 * ScoreUnit, 60 * ScoreUnit - 1, 60 * ScoreUnit,
     85 * ScoreUnit}

\* An analysed day as analyze_weather_day builds it, with the given score.
AnalyzedDay(date, score) ==
    [date |-> date, score |-> score, temperature |-> Some(20),
     precipitation_probability |-> Some(1), wind_speed |-> Some(10),
     reason |-> [reasons |-> <<>>, band |-> "excellent"],
     humidity |-> Some(50), is_rain_expected |-> FALSE,
     is_temperature_optimal |-> TRUE, is_wind_acceptable |-> TRUE]

\* Lists of up to MaxDays days; day i has date i - 1.
ScoreLists == UNION {[1..n -> DayScores] : n \in 0..MaxDays}

FindBestWashDay(scores) ==
    LET analyzed_days ==
            [i \in 1..Len(scores) |-> AnalyzedDay(i - 1, scores[i])] IN
    /\ areq' = [op |-> "find_best_wash_day", analyzed_days |-> analyzed_days]
    /\ aresp' = [ret |-> find_best_wash_day(analyzed_days, None)]
    /\ UNCHANGED <<clock, recs, ctx>>
    /\ UNCHANGED authVars
    /\ UNCHANGED procVars
    /\ UNCHANGED userVars
    /\ UNCHANGED weatherVars
    /\ UNCHANGED txns

AdvisorLogicNext == \E scores \in ScoreLists : FindBestWashDay(scores)

SpecAdvisorLogic == ServicesInit /\ [][AdvisorLogicNext]_vars

(***************************************************************************)
(* WashAdvisorLogic.analyze_weather_day applied to days with every mix of  *)
(* present and absent measurements, for users with and without a wash on   *)
(* record.                                                                 *)
(***************************************************************************)
ScoreTemperatures ==
    {None} \cup {Some(x) : x \in {0 - 10, 0, 4, 5, 12, 18, 24, 28, 31, 40}}

\* Probabilities in tenths: 0.0, 0.1 .. 1.0
ScoreProbabilities == {None} \cup {Some(p) : p \in 0..10}

ScoreWindSpeeds == {None} \cup {Some(w) : w \in {10, 20, 30, 35, 40}}

ScoreHumidities == {None} \cup {Some(h) : h \in {10, 25, 35, 50, 65, 75, 90}}

ScoreWeatherDays ==
    [date : {0}, temperature_avg : ScoreTemperatures,
     precipitation_probability : ScoreProbabilities,
     wind_speed : ScoreWindSpeeds, humidity : ScoreHumidities]

\* The stored context of a user who prefers to wash every 3 days and washed
\* 5 days before day 0.
RecentWashShortInterval ==
    [last_wash_date |-> Some(0 - 5), preferred_wash_interval |-> 3]

\* No context, a user without a wash on record, users whose last wash lies
\* 10, 3, 2, 8 and -1 days back, a context that lacks the days but is marked
\* optimal, and what calculate_user_context gives on day 0 for the user
\* above.
ScoreUserContexts ==
    { None,
      Some([days_since_last_wash |-> None, is_interval_optimal |-> None]),
      Some([days_since_last_wash |-> Some(10),
            is_interval_optimal |-> Some(TRUE)]),
      Some([days_since_last_wash |-> Some(3),
            is_interval_optimal |-> Some(TRUE)]),
      Some([days_since_last_wash |-> Some(2),
            is_interval_optimal |-> Some(FALSE)]),
      Some([days_since_last_wash |-> Some(8),
            is_interval_optimal |-> Some(FALSE)]),
      Some([days_since_last_wash |-> Some(0 - 1),
            is_interval_optimal |-> Some(FALSE)]),
      Some([days_since_last_wash |-> None,
            is_interval_optimal |-> Some(TRUE)]),
      Some(calculate_user_context(RecentWashShortInterval, 0)) }

\* One call per behaviour: the function keeps no state, so a call does not
\* depend on the calls before it.
AnalyzeWeatherDay(weather_data, user_context) ==
    /\ areq.op = "none"
    /\ areq' = [op |-> "analyze_weather_day", weather_data |-> weather_data,
                user_context |-> user_context]
    /\ aresp' = [ret |-> analyze_weather_day(weather_data, user_context)]
    /\ UNCHANGED <<clock, recs, ctx>>
    /\ UNCHANGED authVars
    /\ UNCHANGED procVars
    /\ UNCHANGED userVars
    /\ UNCHANGED weatherVars
    /\ UNCHANGED txns

\* One call is analysed in a behaviour.
AdvisorScoreNext ==
    /\ areq.op = "none"
    /\ \E weather_data \in ScoreWeatherDays,
          user_context \in ScoreUserContexts :
          AnalyzeWeatherDay(weather_data, user_context)

SpecAdvisorScore == ServicesInit /\ [][AdvisorScoreNext]_vars

(***************************************************************************)
(* wash_advisor_service/app/api_client.py: the two outbound calls of the   *)
(* Wash Advisor.  What the other service does is an input: a response with *)
(* a status and a body text, or an exception raised by the HTTP client.    *)
(***************************************************************************)
ApiStatuses == {200, 201, 204, 400, 404, 422, 500, 503}

ApiBodies == {"{\"city\": \"Moscow\"}", "null", "<html>", ""}

ApiExceptions == {"ConnectTimeout", "ReadTimeout", "ConnectError", "Exception"}

ApiResponses == [exception : {"none"}, status_code : ApiStatuses, text : ApiBodies]

ApiFailures == [exception : ApiExceptions, status_code : {0}, text : {""}]

ApiOutcomes == ApiResponses \cup ApiFailures

Returns(value) == [raised |-> "none", ret |-> value]

Raises(exception) == [raised |-> exception, ret |-> None]

\* response.json(): the parsed body, or JSONDecodeError
json(text) ==
    IF text = "{\"city\": \"Moscow\"}" THEN Returns(Some([city |-> "Moscow"]))
    ELSE IF text = "null" THEN Returns(None)
    ELSE Raises("JSONDecodeError")

\* The body of the try statement, after the client has answered.
api_try(outcome) ==
    IF outcome.exception # "none" THEN Raises(outcome.exception)
    ELSE IF outcome.status_code = 200 THEN json(outcome.text)
    ELSE IF outcome.status_code = 404 THEN Returns(None)
    ELSE Returns(None)

\* isinstance(e, httpx.TimeoutException)
IsTimeoutException(exception) == exception \in {"ConnectTimeout", "ReadTimeout"}

\* A handler list without the "except Exception" clause.
api_except_TimeoutOnly(result) ==
    IF result.raised = "none" THEN result
    ELSE IF IsTimeoutException(result.raised) THEN Returns(None)
    ELSE result

\* except httpx.TimeoutException: return None / except Exception: return
\* None.  Every exception of the outcomes is an Exception.
api_except(result) ==
    IF result.raised = "none" THEN result
    ELSE IF IsTimeoutException(result.raised) THEN Returns(None)
    ELSE Returns(None)

\* APIClient.get_user_info
GetUserInfo(user_id, outcome) ==
    /\ areq' = [op |-> "get_user_info", url |-> <<"/api/users", user_id>>,
                days |-> 0, outcome |-> outcome]
    /\ aresp' = api_except(api_try(outcome))
    /\ UNCHANGED <<clock, recs, ctx>>
    /\ UNCHANGED authVars
    /\ UNCHANGED procVars
    /\ UNCHANGED userVars
    /\ UNCHANGED weatherVars
    /\ UNCHANGED txns

\* APIClient.get_weather_forecast
GetWeatherForecast(location, days, outcome) ==
    /\ areq' = [op |-> "get_weather_forecast",
                url |-> <<"/api/weather", location>>,
                days |-> Min(days, MAX_FORECAST_DAYS), outcome |-> outcome]
    /\ aresp' = api_except(api_try(outcome))
    /\ UNCHANGED <<clock, recs, ctx>>
    /\ UNCHANGED authVars
    /\ UNCHANGED procVars
    /\ UNCHANGED userVars
    /\ UNCHANGED weatherVars
    /\ UNCHANGED txns

ApiClientNext ==
    \/ \E user_id \in {"u1", "u2"}, outcome \in ApiOutcomes :
          GetUserInfo(user_id, outcome)
    \/ \E location \in {"Moscow", "Kazan"}, days \in {1, 7, 20},
          outcome \in ApiOutcomes :
          GetWeatherForecast(location, days, outcome)

SpecApiClient == ServicesInit /\ [][ApiClientNext]_vars

(***************************************************************************)
(* The Weather Service: config.py, models.py and the CRUD layer (crud.py). *)
(* Times are hours counted from the midnight that starts the day on which  *)
(* the process was started; a date is the number of its day.               *)
(***************************************************************************)
CACHE_TTL_HOURS == 1

HoursPerDay == 24

MaxWClock == 26
MaxLocations == 3
MaxWDays == 2

\* City names are sequences of characters, so that ILIKE can fold case and
\* look for a substring.
Omsk == <<"O", "m", "s", "k">>
Tomsk == <<"T", "o", "m", "s", "k">>
OmskLowercase == <<"o", "m", "s", "k">>

CityNames == {Omsk, Tomsk, OmskLowercase}

Countries == {"Russia", "Unknown"}

lower_char(c) ==
    CASE c = "O" -> "o"
      [] c = "T" -> "t"
      [] c = "U" -> "u"
      [] OTHER -> c

lower(s) == [i \in 1..Len(s) |-> lower_char(s[i])]

\* column ILIKE '%pattern%': the pattern occurs in the column's value, case
\* folded.  (The wildcards % and _ inside a city name are not modelled.)
ilike(column, pattern) ==
    \E i \in 0..(Len(column) - Len(pattern)) :
        SubSeq(lower(column), i + 1, i + Len(pattern)) = lower(pattern)

\* uuid4 identifiers: any identifier no row has yet; the smallest is taken.
generate_uuid(rows) ==
    CHOOSE i \in 1..(Cardinality(rows) + 1) : \A r \in rows : r.id # i

\* scalar_one_or_none raises MultipleResultsFound on two or more rows; the
\* except clause of get_location_by_city turns that into None.
get_location_by_city(L, city_name) ==
    IF Cardinality({l \in L : ilike(l.city_name, city_name)}) = 1
    THEN Some(CHOOSE l \in L : ilike(l.city_name, city_name))
    ELSE None

LocationCreate(city_name, country) ==
    [city_name |-> city_name, country |-> country]

Location(id, location_data) ==
    [id |-> id, city_name |-> location_data.city_name,
     country |-> location_data.country]

\* flush_ok: whether the INSERT succeeds; when it does not, the session is
\* rolled back and None is returned.
create_location(L, location_data, flush_ok) ==
    IF IsSome(get_location_by_city(L, location_data.city_name))
    THEN [rows |-> L, ret |-> get_location_by_city(L, location_data.city_name)]
    ELSE IF flush_ok
    THEN [rows |-> L \cup {Location(generate_uuid(L), location_data)},
          ret |-> Some(Location(generate_uuid(L), location_data))]
    ELSE [rows |-> L, ret |-> None]

\* Column(DateTime, default=datetime.now()): the default is evaluated once,
\* when models.py is imported, so every row gets the time of process start.
created_at_default == ProcessStart

\* cache_limit.date() compared with a timestamp column: the midnight that
\* starts the day of (t - CACHE_TTL_HOURS).
cache_limit_date(t) == ((t - CACHE_TTL_HOURS) \div HoursPerDay) * HoursPerDay

\* The dates the provider's '%Y-%m-%d' strings stand for.
ForecastDates == ("2026-01-01" :> 1) @@ ("2026-01-02" :> 2)

DateStrings == {"2026-01-01", "2026-01-02", "01.01.2026"}

Temperatures == {5, 9}

\* A day record as parse_forecast_data builds it; temperature_avg stands
\* for the twelve weather fields, which create_forecasts copies alike.
DayData == [date : DateStrings, temperature_avg : Temperatures]

strptime_ok(date_str) == date_str \in DOMAIN ForecastDates

strptime(date_str) == ForecastDates[date_str]

WeatherForecast(id, location_id, forecast_date, day_data, source) ==
    [id |-> id, location_id |-> location_id, date |-> forecast_date,
     temperature_avg |-> day_data.temperature_avg,
     forecast_source |-> source, is_cached |-> TRUE,
     created_at |-> created_at_default]

\* A create_forecasts that never finds the row of a date.
existing_forecasts_None(F, location_id, forecast_date) == {}

existing_forecasts(F, location_id, forecast_date) ==
    {f \in F : f.location_id = location_id /\ f.date = forecast_date}

update_forecast(existing_forecast, day_data) ==
    [existing_forecast EXCEPT !.temperature_avg = day_data.temperature_avg,
                              !.is_cached = TRUE]

\* The loop of create_forecasts from day i on: F is the table as the
\* session sees it (pending rows are flushed before each SELECT), ret the
\* identifiers of the rows appended to the result so far.
RECURSIVE create_forecasts_loop(_, _, _, _, _, _)
create_forecasts_loop(i, F, ret, location_id, forecast_days, source) ==
    IF i > Len(forecast_days) THEN [failed |-> FALSE, rows |-> F, ret |-> ret]
    ELSE IF ~strptime_ok(forecast_days[i].date)
    THEN create_forecasts_loop(i + 1, F, ret, location_id, forecast_days,
                               source)
    ELSE LET existing ==
                 existing_forecasts(F, location_id,
                                    strptime(forecast_days[i].date)) IN
         IF Cardinality(existing) > 1
         THEN [failed |-> TRUE, rows |-> F, ret |-> ret]
         ELSE IF existing # {}
         THEN create_forecasts_loop(
                  i + 1,
                  (F \ existing) \cup
                      {update_forecast(f, forecast_days[i]) : f \in existing},
                  Append(ret, (CHOOSE f \in existing : TRUE).id),
                  location_id, forecast_days, source)
         ELSE create_forecasts_loop(
                  i + 1,
                  F \cup {WeatherForecast(generate_uuid(F), location_id,
                                          strptime(forecast_days[i].date),
                                          forecast_days[i], source)},
                  Append(ret, generate_uuid(F)),
                  location_id, forecast_days, source)

forecast_by_id(F, id) == CHOOSE f \in F : f.id = id

\* On an exception the session is rolled back and [] is returned.
create_forecasts_result(F, out) ==
    IF out.failed THEN [rows |-> F, ret |-> <<>>]
    ELSE [rows |-> out.rows,
          ret |-> [k \in 1..Len(out.ret) |->
                       forecast_by_id(out.rows, out.ret[k])]]

create_forecasts(F, location_id, forecast_days, source) ==
    create_forecasts_result(
        F, create_forecasts_loop(1, F, <<>>, location_id, forecast_days,
                                 source))

\* ORDER BY date ASC; rows of one date in the order of their identifiers.
RECURSIVE order_by_date(_)
order_by_date(rows) ==
    IF rows = {} THEN <<>>
    ELSE LET first ==
                 CHOOSE f \in rows :
                     \A g \in rows :
                         \/ f.date < g.date
                         \/ f.date = g.date /\ f.id <= g.id IN
         <<first>> \o order_by_date(rows \ {first})

\* The WHERE clause of get_cached_forecast at time t.
cached_forecasts_at(F, location_id, t) ==
    {f \in F : /\ f.location_id = location_id
               /\ f.created_at >= cache_limit_date(t)
               /\ f.is_cached}

limit(rows, n) == SubSeq(rows, 1, IF Len(rows) < n THEN Len(rows) ELSE n)

get_cached_forecast(F, location_id, days, t) ==
    IF cached_forecasts_at(F, location_id, t) = {} THEN None
    ELSE Some(limit(order_by_date(cached_forecasts_at(F, location_id, t)),
                    days))

old_forecasts_at(F, location_id, t) ==
    {f \in F : /\ f.location_id = location_id
               /\ f.created_at < cache_limit_date(t)
               /\ f.is_cached}

delete_old_forecasts(F, location_id, t) ==
    [rows |-> F \ old_forecasts_at(F, location_id, t),
     ret |-> Cardinality(old_forecasts_at(F, location_id, t))]

ApiRequestLog(location, response_status, was_cached) ==
    [location |-> location, response_status |-> response_status,
     was_cached |-> was_cached]

log_api_request(logs, location, response_status, was_cached) ==
    Append(logs, ApiRequestLog(location, response_status, was_cached))

(***************************************************************************)
(* Calls of the CRUD layer, each in a session that is committed after it.  *)
(***************************************************************************)
CreateLocation(city_name, country) ==
    /\ Cardinality(locations) < MaxLocations
    /\ \E out \in {create_location(locations,
                                   LocationCreate(city_name, country), TRUE)} :
        /\ locations' = out.rows
        /\ wresp' = [ret |-> out.ret]
    /\ wreq' = [op |-> "create_location", city_name |-> city_name,
                country |-> country]
    /\ UNCHANGED <<wclock, weather_client, forecasts, api_request_logs>>
    /\ UNCHANGED authVars
    /\ UNCHANGED procVars
    /\ UNCHANGED userVars
    /\ UNCHANGED wtxns
    /\ UNCHANGED advisorVars

GetLocationByCity(city_name) ==
    /\ wreq' = [op |-> "get_location_by_city", city_name |-> city_name]
    /\ wresp' = [ret |-> get_location_by_city(locations, city_name)]
    /\ UNCHANGED <<wclock, weather_client, locations, forecasts,
                   api_request_logs>>
    /\ UNCHANGED authVars
    /\ UNCHANGED procVars
    /\ UNCHANGED userVars
    /\ UNCHANGED wtxns
    /\ UNCHANGED advisorVars

CreateForecasts(location_id, forecast_days, source) ==
    /\ \E out \in {create_forecasts(forecasts, location_id, forecast_days,
                                    source)} :
        /\ forecasts' = out.rows
        /\ wresp' = [ret |-> out.ret]
    /\ wreq' = [op |-> "create_forecasts", location_id |-> location_id,
                forecast_days |-> forecast_days, source |-> source]
    /\ UNCHANGED <<wclock, weather_client, locations, api_request_logs>>
    /\ UNCHANGED authVars
    /\ UNCHANGED procVars
    /\ UNCHANGED userVars
    /\ UNCHANGED wtxns
    /\ UNCHANGED advisorVars

GetCachedForecast(location_id, days) ==
    /\ wreq' = [op |-> "get_cached_forecast", location_id |-> location_id,
                days |-> days]
    /\ wresp' = [ret |-> get_cached_forecast(forecasts, location_id, days,
                                             wclock)]
    /\ UNCHANGED <<wclock, weather_client, locations, forecasts,
                   api_request_logs>>
    /\ UNCHANGED authVars
    /\ UNCHANGED procVars
    /\ UNCHANGED userVars
    /\ UNCHANGED wtxns
    /\ UNCHANGED advisorVars

DeleteOldForecasts(location_id) ==
    /\ \E out \in {delete_old_forecasts(forecasts, location_id, wclock)} :
        /\ forecasts' = out.rows
        /\ wresp' = [ret |-> out.ret]
    /\ wreq' = [op |-> "delete_old_forecasts", location_id |-> location_id]
    /\ UNCHANGED <<wclock, weather_client, locations, api_request_logs>>
    /\ UNCHANGED authVars
    /\ UNCHANGED procVars
    /\ UNCHANGED userVars
    /\ UNCHANGED wtxns
    /\ UNCHANGED advisorVars

\* An hour passes.
WeatherTick ==
    /\ wclock < MaxWClock
    /\ wclock' = wclock + 1
    /\ wreq' = NoRequest
    /\ wresp' = NoResponse
    /\ UNCHANGED <<weather_client, locations, forecasts, api_request_logs>>
    /\ UNCHANGED authVars
    /\ UNCHANGED procVars
    /\ UNCHANGED userVars
    /\ UNCHANGED wtxns
    /\ UNCHANGED advisorVars

WeatherLocationsNext ==
    \/ \E city_name \in CityNames, country \in Countries :
           CreateLocation(city_name, country)
    \/ \E city_name \in CityNames : GetLocationByCity(city_name)

SpecWeatherLocations == ServicesInit /\ [][WeatherLocationsNext]_vars

ForecastDays == UNION {[1..n -> DayData] : n \in 1..MaxWDays}

ForecastSources == {"weatherapi", "manual"}

LocationIds == {l.id : l \in locations}

\* The forecast cache of one location.
WeatherCrudNext ==
    \/ locations = {} /\ CreateLocation(Omsk, "Russia")
    \/ \E location_id \in LocationIds, forecast_days \in ForecastDays,
          source \in ForecastSources :
           CreateForecasts(location_id, forecast_days, source)
    \/ \E location_id \in LocationIds, days \in 1..MaxWDays :
           GetCachedForecast(location_id, days)
    \/ \E location_id \in LocationIds : DeleteOldForecasts(location_id)
    \/ WeatherTick

SpecWeatherCrud == ServicesInit /\ [][WeatherCrudNext]_vars

(***************************************************************************)
(* The Weather Service's HTTP API (main.py), with the session of get_db:   *)
(* committed when the handler returns, rolled back when it raises.         *)
(***************************************************************************)
MaxLogs == 3

DateList == <<"2026-01-01", "2026-01-02">>

\* What weather_client.get_forecast and parse_forecast_data make of the
\* provider's answer: the provider's name of the city and one record per
\* day, possibly fewer days than were asked for.
ProviderForecasts ==
    {[country |-> "Russia",
      forecast_days |->
          [i \in 1..n |-> [date |-> DateList[i], temperature_avg |-> t]],
      city_name |-> city_name] :
        city_name \in {Omsk, Tomsk}, n \in 1..Min(MaxWDays, Len(DateList)),
        t \in Temperatures}

\* get_forecast returns None when the provider does not know the city or
\* cannot be reached.
ProviderAnswers == {None} \cup {Some(raw_data) : raw_data \in ProviderForecasts}

AnswersFor(city) ==
    {answer \in ProviderAnswers :
        IsSome(answer) => lower(Get(answer).city_name) = lower(city)}

Session(L, F, logs) ==
    [locations |-> L, forecasts |-> F, api_request_logs |-> logs]

ForecastResponseDay(forecast) ==
    [date |-> forecast.date, temperature_avg |-> forecast.temperature_avg]

\* except HTTPException: the request is logged with the status of the
\* exception and was_cached False, then the exception is raised again.
RaiseHTTPException(status_code, provider, L, F, logs, city) ==
    [status |-> status_code, raised |-> TRUE, cached |-> FALSE,
     provider |-> provider, forecast |-> <<>>,
     session |-> Session(L, F, log_api_request(logs, city, status_code,
                                               FALSE))]

ForecastResponse(cached, provider, L, F, logs, city, forecasts_data, days) ==
    [status |-> 200, raised |-> FALSE, cached |-> cached,
     provider |-> provider,
     forecast |-> [k \in 1..Len(limit(forecasts_data, days)) |->
                       ForecastResponseDay(forecasts_data[k])],
     session |-> Session(L, F, log_api_request(logs, city, 200, cached))]

StoreFreshForecast(location, L, F, logs, city, days, answer, t) ==
    {ForecastResponse(
         FALSE, Some(answer), L,
         delete_old_forecasts(created.rows, location.id, t).rows,
         logs, city, created.ret, days) :
         created \in {create_forecasts(F, location.id,
                                       Get(answer).forecast_days,
                                       "weatherapi")}}

FetchFreshForecast(L, F, logs, client, city, days, answer, flush_ok, t) ==
    IF ~client THEN {RaiseHTTPException(503, None, L, F, logs, city)}
    ELSE IF answer = None
    THEN {RaiseHTTPException(404, Some(answer), L, F, logs, city)}
    ELSE UNION
        {IF out.ret = None
         THEN {RaiseHTTPException(500, Some(answer), L, F, logs, city)}
         ELSE StoreFreshForecast(Get(out.ret), out.rows, F, logs, city, days,
                                 answer, t) :
            out \in {create_location(
                         L, LocationCreate(Get(answer).city_name,
                                           Get(answer).country), flush_ok)}}

\* The cached rows of the location the city matches, if it matches one.
cached_forecasts_for(L, F, city, days, t) ==
    IF get_location_by_city(L, city) = None THEN None
    ELSE get_cached_forecast(F, Get(get_location_by_city(L, city)).id, days,
                             t)

\* The handler of GET /api/weather; the result is a set of one outcome.
get_weather_forecast(L, F, logs, client, city, days, answer, flush_ok, t) ==
    UNION
        {IF IsSome(cached_forecasts) /\ Len(Get(cached_forecasts)) >= days
         THEN {ForecastResponse(TRUE, None, L, F, logs, city,
                                Get(cached_forecasts), days)}
         ELSE FetchFreshForecast(L, F, logs, client, city, days, answer,
                                 flush_ok, t) :
            cached_forecasts \in {cached_forecasts_for(L, F, city, days, t)}}

\* weather_client is None until startup_event has run.
startup_event ==
    /\ ~weather_client
    /\ weather_client' = TRUE
    /\ wreq' = NoRequest
    /\ wresp' = NoResponse
    /\ UNCHANGED <<wclock, locations, forecasts, api_request_logs>>
    /\ UNCHANGED authVars
    /\ UNCHANGED procVars
    /\ UNCHANGED userVars
    /\ UNCHANGED wtxns
    /\ UNCHANGED advisorVars

\* GET /api/weather?city=..&days=..; days outside 1..14 is answered 422
\* before the handler runs.
GetApiWeather(city, days, answer, flush_ok) ==
    /\ Len(api_request_logs) < MaxLogs
    /\ Cardinality(locations) < MaxLocations
    /\ IF days < 1 \/ days > 14
       THEN /\ wreq' = [op |-> "GET /api/weather", city |-> city,
                        days |-> days, provider |-> None]
            /\ wresp' = [status |-> 422]
            /\ UNCHANGED <<locations, forecasts, api_request_logs>>
       ELSE \E out \in get_weather_forecast(locations, forecasts,
                                            api_request_logs, weather_client,
                                            city, days, answer, flush_ok,
                                            wclock) :
            /\ wreq' = [op |-> "GET /api/weather", city |-> city,
                        days |-> days, provider |-> out.provider]
            /\ wresp' = [status |-> out.status, cached |-> out.cached,
                         forecast |-> out.forecast]
            /\ IF out.raised
               THEN UNCHANGED <<locations, forecasts, api_request_logs>>
               ELSE /\ locations' = out.session.locations
                    /\ forecasts' = out.session.forecasts
                    /\ api_request_logs' = out.session.api_request_logs
    /\ UNCHANGED <<wclock, weather_client>>
    /\ UNCHANGED authVars
    /\ UNCHANGED procVars
    /\ UNCHANGED userVars
    /\ UNCHANGED wtxns
    /\ UNCHANGED advisorVars

WeatherNext ==
    \/ startup_event
    \/ \E city \in CityNames, days \in 0..MaxWDays, flush_ok \in BOOLEAN :
           \E answer \in AnswersFor(city) :
               GetApiWeather(city, days, answer, flush_ok)
    \/ WeatherTick

SpecWeather == ServicesInit /\ [][WeatherNext]_vars

\* The Weather Service with a provider that may report any name for the
\* city it was asked about.
WeatherAnyNameNext ==
    \/ startup_event
    \/ \E city \in CityNames, days \in 0..MaxWDays, flush_ok \in BOOLEAN :
           \E answer \in ProviderAnswers :
               GetApiWeather(city, days, answer, flush_ok)
    \/ WeatherTick

SpecWeatherAnyName == ServicesInit /\ [][WeatherAnyNameNext]_vars

\* The Weather Service with a provider whose response may fail to parse:
\* the "except Exception" of parse_forecast_data returns the location
\* {Unknown, Unknown, 0, 0} and no days, and the handler goes on with it.
Unknown == <<"U", "n", "k", "n", "o", "w", "n">>

ParseFallback ==
    [country |-> "Unknown", forecast_days |-> <<>>, city_name |-> Unknown]

WeatherFallbackNext ==
    \/ startup_event
    \/ \E city \in CityNames, days \in 1..MaxWDays, flush_ok \in BOOLEAN :
           \E answer \in AnswersFor(city) \cup {Some(ParseFallback)} :
               GetApiWeather(city, days, answer, flush_ok)
    \/ WeatherTick

SpecWeatherFallback == ServicesInit /\ [][WeatherFallbackNext]_vars

(***************************************************************************)
(* GET /api/weather requests that overlap (main.py).  Each request has its *)
(* own session; a session sees the committed rows and its own writes, and  *)
(* get_db commits when the handler returns.  The handler yields at every   *)
(* await: after the location lookup, while the provider is asked, and      *)
(* after create_location's flush.  No table has a unique constraint beside *)
(* the primary key (models.py), so no INSERT waits for another session.    *)
(* All requests are for Omsk.                                              *)
(***************************************************************************)
\* The location rows that sessions in flight have inserted but not committed.
PendingLocations ==
    {Get(wtxns[j].location) :
        j \in {i \in 1..MaxInFlight :
                  wtxns[i].pc = "create_forecasts" /\ wtxns[i].insert}}

\* The request of session k ends with an HTTPException: nothing is stored.
AbortWeatherRequest(k, status_code, provider) ==
    /\ wreq' = [op |-> "GET /api/weather", city |-> wtxns[k].city,
                days |-> wtxns[k].days, provider |-> provider,
                known |-> wtxns[k].known]
    /\ wresp' = [status |-> status_code, cached |-> FALSE, forecast |-> <<>>]
    /\ wtxns' = [wtxns EXCEPT ![k] = Idle]
    /\ UNCHANGED <<locations, forecasts, api_request_logs>>

\* The request of session k ends with a response, and get_db commits.
CommitWeatherRequest(k, out) ==
    /\ wreq' = [op |-> "GET /api/weather", city |-> wtxns[k].city,
                days |-> wtxns[k].days, provider |-> out.provider,
                known |-> wtxns[k].known]
    /\ wresp' = [status |-> out.status, cached |-> out.cached,
                 forecast |-> out.forecast]
    /\ locations' = out.session.locations
    /\ forecasts' = out.session.forecasts
    /\ api_request_logs' = out.session.api_request_logs
    /\ wtxns' = [wtxns EXCEPT ![k] = Idle]

\* A request arrives; known: a stored location matches its city.
BeginWeatherRequest(k, city, days) ==
    /\ wtxns[k].pc = "idle"
    /\ Len(api_request_logs)
           + Cardinality({j \in 1..MaxInFlight : wtxns[j].pc # "idle"})
         < MaxLogs
    /\ wtxns' = [wtxns EXCEPT ![k] =
                    [pc |-> "get_location_by_city", city |-> city,
                     days |-> days,
                     known |-> \E l \in locations : ilike(l.city_name, city)]]
    /\ wreq' = NoRequest
    /\ wresp' = NoResponse
    /\ UNCHANGED <<wclock, weather_client, locations, forecasts,
                   api_request_logs>>
    /\ UNCHANGED authVars
    /\ UNCHANGED procVars
    /\ UNCHANGED userVars
    /\ UNCHANGED advisorVars

\* get_location_by_city and get_cached_forecast: a cache hit answers the
\* request; otherwise the provider is asked, if there is a client.
LookupLocation(k) ==
    /\ wtxns[k].pc = "get_location_by_city"
    /\ \E cached_forecasts \in
           {cached_forecasts_for(locations, forecasts, wtxns[k].city,
                                 wtxns[k].days, wclock)} :
          IF IsSome(cached_forecasts)
                /\ Len(Get(cached_forecasts)) >= wtxns[k].days
          THEN CommitWeatherRequest(
                   k, ForecastResponse(TRUE, None, locations, forecasts,
                                       api_request_logs, wtxns[k].city,
                                       Get(cached_forecasts), wtxns[k].days))
          ELSE IF ~weather_client
          THEN AbortWeatherRequest(k, 503, None)
          ELSE /\ wtxns' = [wtxns EXCEPT ![k].pc = "get_forecast"]
               /\ wreq' = NoRequest
               /\ wresp' = NoResponse
               /\ UNCHANGED <<locations, forecasts, api_request_logs>>
    /\ UNCHANGED <<wclock, weather_client>>
    /\ UNCHANGED authVars
    /\ UNCHANGED procVars
    /\ UNCHANGED userVars
    /\ UNCHANGED advisorVars

\* weather_client.get_forecast returns, then create_location runs up to its
\* flush: the session looks for the location among the committed rows and
\* inserts a row of its own when it finds none.
CreateLocationInSession(k, answer, flush_ok) ==
    /\ wtxns[k].pc = "get_forecast"
    /\ Cardinality(locations \cup PendingLocations) < MaxLocations
    /\ IF answer = None
       THEN AbortWeatherRequest(k, 404, Some(answer))
       ELSE \E out \in {create_location(
                            locations,
                            LocationCreate(Get(answer).city_name,
                                           Get(answer).country), flush_ok)} :
            IF out.ret = None
            THEN AbortWeatherRequest(k, 500, Some(answer))
            ELSE /\ wtxns' =
                      [wtxns EXCEPT ![k] =
                          [pc |-> "create_forecasts", city |-> wtxns[k].city,
                           days |-> wtxns[k].days, known |-> wtxns[k].known,
                           answer |-> answer,
                           insert |-> Get(out.ret) \notin locations,
                           location |->
                               IF Get(out.ret) \in locations THEN out.ret
                               ELSE Some([Get(out.ret) EXCEPT
                                            !.id = generate_uuid(
                                                       locations \cup
                                                       PendingLocations)])]]
                 /\ wreq' = NoRequest
                 /\ wresp' = NoResponse
                 /\ UNCHANGED <<locations, forecasts, api_request_logs>>
    /\ UNCHANGED <<wclock, weather_client>>
    /\ UNCHANGED authVars
    /\ UNCHANGED procVars
    /\ UNCHANGED userVars
    /\ UNCHANGED advisorVars

\* create_forecasts, delete_old_forecasts, the request log and the response;
\* get_db commits the session.
StoreAndCommit(k) ==
    /\ wtxns[k].pc = "create_forecasts"
    /\ \E out \in StoreFreshForecast(
                      Get(wtxns[k].location),
                      locations \cup {Get(wtxns[k].location)}, forecasts,
                      api_request_logs, wtxns[k].city, wtxns[k].days,
                      wtxns[k].answer, wclock) :
           CommitWeatherRequest(k, out)
    /\ UNCHANGED <<wclock, weather_client>>
    /\ UNCHANGED authVars
    /\ UNCHANGED procVars
    /\ UNCHANGED userVars
    /\ UNCHANGED advisorVars

WeatherSessionsNext ==
    \/ startup_event
    \/ \E k \in 1..MaxInFlight :
          \/ \E days \in 1..MaxWDays : BeginWeatherRequest(k, Omsk, days)
          \/ LookupLocation(k)
          \/ \E answer \in AnswersFor(Omsk), flush_ok \in BOOLEAN :
                CreateLocationInSession(k, answer, flush_ok)
          \/ StoreAndCommit(k)

SpecWeatherSessions == ServicesInit /\ [][WeatherSessionsNext]_vars

(***************************************************************************)
(* The Weather Service's provider client: WeatherAPIClient.get_forecast    *)
(* (weather_client.py), one step per HTTP request and per backoff sleep.   *)
(***************************************************************************)
\* for attempt in range(3)
max_attempts == 3

\* What one HTTP request to the provider ends in: a 200 whose body passes
\* or fails _validate_response, a status code, or an exception.
ProviderOutcomes ==
    {"200 valid", "200 invalid", "400", "401", "403", "404", "500",
     "TimeoutException", "RequestError", "Exception"}

RequestEvent(outcome) ==
    [event |-> "request", outcome |-> outcome, seconds |-> 0]

SleepEvent(seconds) ==
    [event |-> "sleep", outcome |-> "none", seconds |-> seconds]

RECURSIVE Power2(_)
Power2(n) == IF n = 0 THEN 1 ELSE 2 * Power2(n - 1)

\* A client that retries on every response other than a valid 200.
handle_response_RetryAll(outcome, attempt) ==
    IF outcome = "200 valid" THEN "return data"
    ELSE IF attempt < 2 THEN "sleep" ELSE "continue"

\* The body of the loop after the request of the given attempt: what the
\* branch of the status code or the except clause does next.
handle_response(outcome, attempt) ==
    CASE outcome = "200 valid" -> "return data"
      [] outcome = "200 invalid" -> "continue"
      [] outcome \in {"400", "401", "403", "404"} -> "return None"
      [] outcome = "500" -> IF attempt < 2 THEN "sleep" ELSE "return None"
      [] outcome \in {"TimeoutException", "RequestError"} ->
             IF attempt < 2 THEN "sleep" ELSE "continue"
      [] outcome = "Exception" -> "return None"

\* The next iteration of the loop, or the return None after it.
next_attempt(f) ==
    IF f.attempt + 1 < max_attempts
    THEN [f EXCEPT !.pc = "request", !.attempt = f.attempt + 1]
    ELSE [f EXCEPT !.pc = "done", !.attempt = f.attempt + 1]

\* get_forecast is called; without an API key it returns None at once.
GetForecast(api_key) ==
    /\ fetch.pc \in {"idle", "done"}
    /\ fetch' = [pc |-> IF api_key THEN "request" ELSE "done",
                 api_key |-> api_key, attempt |-> 0, trace |-> <<>>,
                 ret |-> None]
    /\ UNCHANGED <<boot, logging>>
    /\ UNCHANGED authVars
    /\ UNCHANGED userVars
    /\ UNCHANGED advisorVars
    /\ UNCHANGED weatherVars

\* self.client.get(...) ends in the outcome, and the loop body handles it.
ProviderResponds(outcome) ==
    /\ fetch.pc = "request"
    /\ \E f \in {[fetch EXCEPT !.trace = Append(@, RequestEvent(outcome))]},
          todo \in {handle_response(outcome, fetch.attempt)} :
        fetch' = CASE todo = "return data" ->
                          [f EXCEPT !.pc = "done", !.ret = Some("data")]
                   [] todo = "return None" -> [f EXCEPT !.pc = "done"]
                   [] todo = "sleep" -> [f EXCEPT !.pc = "sleep"]
                   [] todo = "continue" -> next_attempt(f)
    /\ UNCHANGED <<boot, logging>>
    /\ UNCHANGED authVars
    /\ UNCHANGED userVars
    /\ UNCHANGED advisorVars
    /\ UNCHANGED weatherVars

\* await asyncio.sleep(2 ** attempt); continue
Backoff ==
    /\ fetch.pc = "sleep"
    /\ fetch' = next_attempt(
                    [fetch EXCEPT
                         !.trace = Append(@, SleepEvent(Power2(fetch.attempt)))])
    /\ UNCHANGED <<boot, logging>>
    /\ UNCHANGED authVars
    /\ UNCHANGED userVars
    /\ UNCHANGED advisorVars
    /\ UNCHANGED weatherVars

WeatherClientNext ==
    \/ \E api_key \in BOOLEAN : GetForecast(api_key)
    \/ \E outcome \in ProviderOutcomes : ProviderResponds(outcome)
    \/ Backoff

SpecWeatherClient == ServicesInit /\ [][WeatherClientNext]_vars

\* Every request to the provider ends within the 15 s timeout of the HTTP
\* client and every sleep ends, so a call in progress takes its next step.
FairWeatherClient == SpecWeatherClient /\ WF_vars(WeatherClientNext)

(***************************************************************************)
(* startup_event of the three services (main.py): one step per sleep, per  *)
(* database connectivity check and per schema creation.  The trace lists   *)
(* what the startup has done so far.                                       *)
(***************************************************************************)
max_retries == 5

Services == {"user", "weather", "advisor"}

\* uvicorn runs the startup handler of a service.
StartupEvent(service) ==
    /\ boot.pc = "down"
    /\ boot' = [pc |-> "asyncio.sleep(5)", service |-> service, i |-> 0,
                trace |-> <<>>]
    /\ UNCHANGED <<fetch, logging>>
    /\ UNCHANGED authVars
    /\ UNCHANGED userVars
    /\ UNCHANGED advisorVars
    /\ UNCHANGED weatherVars

\* await asyncio.sleep(5), before the loop
InitialSleep ==
    /\ boot.pc = "asyncio.sleep(5)"
    /\ boot' = [boot EXCEPT !.pc = "check_db_connection",
                            !.trace = Append(@, "sleep 5")]
    /\ UNCHANGED <<fetch, logging>>
    /\ UNCHANGED authVars
    /\ UNCHANGED userVars
    /\ UNCHANGED advisorVars
    /\ UNCHANGED weatherVars

\* A startup that also pauses after the last failed check.
after_check_AlwaysPause(connected, i) ==
    IF connected THEN "init_db" ELSE "asyncio.sleep(3)"

\* Where the loop goes after check number i + 1 has answered.
after_check(connected, i) ==
    IF connected THEN "init_db"
    ELSE IF i < max_retries - 1 THEN "asyncio.sleep(3)"
    ELSE "started"

\* connected = await check_db_connection(), which returns False on any
\* error
CheckDbConnection(connected) ==
    /\ boot.pc = "check_db_connection"
    /\ boot.i < max_retries
    /\ boot' = [boot EXCEPT
                    !.pc = after_check(connected, boot.i),
                    !.trace = Append(@, IF connected THEN "check ok"
                                        ELSE "check failed")]
    /\ UNCHANGED <<fetch, logging>>
    /\ UNCHANGED authVars
    /\ UNCHANGED userVars
    /\ UNCHANGED advisorVars
    /\ UNCHANGED weatherVars

\* await init_db(); break.  init_db catches its own errors.
InitDb(created) ==
    /\ boot.pc = "init_db"
    /\ boot' = [boot EXCEPT
                    !.pc = "started",
                    !.trace = Append(@, IF created THEN "init_db ok"
                                        ELSE "init_db failed")]
    /\ UNCHANGED <<fetch, logging>>
    /\ UNCHANGED authVars
    /\ UNCHANGED userVars
    /\ UNCHANGED advisorVars
    /\ UNCHANGED weatherVars

\* await asyncio.sleep(3), then the next iteration
Pause ==
    /\ boot.pc = "asyncio.sleep(3)"
    /\ boot' = [boot EXCEPT !.pc = "check_db_connection", !.i = @ + 1,
                            !.trace = Append(@, "sleep 3")]
    /\ UNCHANGED <<fetch, logging>>
    /\ UNCHANGED authVars
    /\ UNCHANGED userVars
    /\ UNCHANGED advisorVars
    /\ UNCHANGED weatherVars

\* The handler returns and the service starts serving; the Weather Service
\* has set weather_client on the way.
StartupComplete ==
    /\ boot.pc = "started"
    /\ boot' = [boot EXCEPT !.pc = "serving"]
    /\ weather_client' = (weather_client \/ boot.service = "weather")
    /\ UNCHANGED <<wclock, locations, forecasts, api_request_logs, wreq,
                   wresp>>
    /\ UNCHANGED <<fetch, logging>>
    /\ UNCHANGED authVars
    /\ UNCHANGED userVars
    /\ UNCHANGED wtxns
    /\ UNCHANGED advisorVars

StartupNext ==
    \/ \E service \in Services : StartupEvent(service)
    \/ InitialSleep
    \/ \E connected \in BOOLEAN : CheckDbConnection(connected)
    \/ \E created \in BOOLEAN : InitDb(created)
    \/ Pause
    \/ StartupComplete

SpecStartup == ServicesInit /\ [][StartupNext]_vars

\* Every sleep ends and every database call returns: check_db_connection
\* and init_db catch their errors, and the driver's connection attempt
\* ends in a connection or an error.
FairStartup == SpecStartup /\ WF_vars(StartupNext)

(***************************************************************************)
(* WeatherAPIClient.parse_forecast_data (weather_client.py), for provider  *)
(* data of one day.  A string is a sequence of characters; a number is     *)
(* held as its decimal digits and the count of those after the point.      *)
(***************************************************************************)
MaxChars == 3

RainChars == {"6", "0", "%", ".", "x"}

RainStrings == UNION {[1..n -> RainChars] : n \in 0..MaxChars}

Number(digits, scale) == [digits |-> digits, scale |-> scale]

RECURSIVE Power10(_)
Power10(n) == IF n = 0 THEN 1 ELSE 10 * Power10(n - 1)

\* a == b for two numbers
SameNumber(a, b) == a.digits * Power10(b.scale) = b.digits * Power10(a.scale)

\* The values of day['daily_chance_of_rain']: no such key, an int, a JSON
\* null, a string.
RainValue(type, num, text) == [type |-> type, num |-> num, text |-> text]

RainValues ==
    {RainValue("absent", 0, <<>>), RainValue("NoneType", 0, <<>>)}
    \cup {RainValue("int", n, <<>>) : n \in {0, 60, 100}}
    \cup {RainValue("str", 0, text) : text \in RainStrings}

\* str.replace('%', ''): every '%' is removed
replace(text) == SelectSeq(text, LAMBDA c : c # "%")

IsDigit(c) == c \in {"6", "0"}

DigitOf(c) == IF c = "6" THEN 6 ELSE 0

\* float(text) raises ValueError unless the text is digits with at most one
\* point and at least one digit (of the characters of RainChars).
float_ok(text) ==
    /\ \A i \in 1..Len(text) : IsDigit(text[i]) \/ text[i] = "."
    /\ Cardinality({i \in 1..Len(text) : text[i] = "."}) <= 1
    /\ \E i \in 1..Len(text) : IsDigit(text[i])

RECURSIVE DigitsValue(_)
DigitsValue(digits) ==
    IF digits = <<>> THEN 0
    ELSE 10 * DigitsValue(SubSeq(digits, 1, Len(digits) - 1))
         + DigitOf(digits[Len(digits)])

\* float(text) for a text that float_ok accepts
float(text) ==
    LET points == {i \in 1..Len(text) : text[i] = "."}
        scale == IF points = {} THEN 0
                 ELSE Len(text) - (CHOOSE i \in points : TRUE)
    IN Number(DigitsValue(SelectSeq(text, IsDigit)), scale)

\* a / 100.0
DivideBy100(a) == Number(a.digits, a.scale + 2)

\* chance_of_rain after the isinstance(chance_of_rain, str) block: a number,
\* or the None that was there (type "NoneType").
chance_of_rain(value) ==
    IF value.type = "str"
    THEN IF float_ok(replace(value.text))
         THEN [type |-> "float", number |-> float(replace(value.text))]
         ELSE [type |-> "int", number |-> Number(0, 0)]
    ELSE IF value.type = "NoneType"
    THEN [type |-> "NoneType", number |-> Number(0, 0)]
    ELSE [type |-> "int", number |-> Number(value.num, 0)]

\* parse_forecast_data of a response with one forecast day: None / 100.0
\* raises TypeError, and the outer except gives the result without days.
parse_forecast_data(date, value) ==
    LET chance == chance_of_rain(value) IN
    IF chance.type = "NoneType"
    THEN [city_name |-> "Unknown", forecast_days |-> <<>>]
    ELSE [city_name |-> "Moscow",
          forecast_days |->
              <<[date |-> date,
                 precipitation_probability |-> DivideBy100(chance.number)]>>]

ParseForecastData(value) ==
    /\ wreq' = [op |-> "parse_forecast_data", daily_chance_of_rain |-> value]
    /\ wresp' = parse_forecast_data("2024-01-20", value)
    /\ UNCHANGED <<wclock, weather_client, locations, forecasts,
                   api_request_logs>>
    /\ UNCHANGED authVars
    /\ UNCHANGED procVars
    /\ UNCHANGED userVars
    /\ UNCHANGED wtxns
    /\ UNCHANGED advisorVars

WeatherParseNext == \E value \in RainValues : ParseForecastData(value)

SpecWeatherParse == ServicesInit /\ [][WeatherParseNext]_vars

(***************************************************************************)
(* common_logger/logger.py: the CentralizedLogger singleton and the root   *)
(* logger's handler list.  Objects are numbered in the order they are      *)
(* created, so that a handler that replaces another is a different one.    *)
(* instance is cls._instance, initialized is its _initialized attribute.   *)
(***************************************************************************)
MaxConstructions == 3

MaxHandlers == 3

ConstructionOutcomes == {"ok", "mkdir fails", "file handler fails"}

Handler(kind, id) == [kind |-> kind, id |-> id]

\* CentralizedLogger.__new__
new(l) ==
    IF l.instance = None
    THEN [l EXCEPT !.instance = Some(l.objects + 1), !.objects = @ + 1,
                   !.initialized = FALSE]
    ELSE l

\* An __init__ that never returns early.
already_initialized_Never(l) == FALSE

\* "if self._initialized: return"
already_initialized(l) == l.initialized

\* CentralizedLogger.__init__ with _setup_handlers, on the instance that
\* __new__ gave.  log_dir.mkdir and RotatingFileHandler raise OSError when
\* the directory or the file cannot be created.
init(l, outcome) ==
    IF already_initialized(l)
    THEN [l EXCEPT !.ret = l.instance, !.raised = "none"]
    ELSE IF outcome = "mkdir fails"
    THEN [l EXCEPT !.ret = None, !.raised = "OSError"]
    ELSE IF outcome = "file handler fails"
    THEN [l EXCEPT !.handlers = <<Handler("console", l.objects + 1)>>,
                   !.objects = @ + 1,
                   !.ret = None, !.raised = "OSError"]
    ELSE [l EXCEPT !.handlers = <<Handler("console", l.objects + 1),
                                  Handler("file", l.objects + 2)>>,
                   !.objects = @ + 2,
                   !.initialized = TRUE,
                   !.ret = l.instance, !.raised = "none"]

\* CentralizedLogger()
Construct(outcome) ==
    /\ logging.calls < MaxConstructions
    /\ logging' = [init(new(logging), outcome) EXCEPT !.calls = @ + 1]
    /\ UNCHANGED <<fetch, boot>>
    /\ UNCHANGED authVars
    /\ UNCHANGED userVars
    /\ UNCHANGED advisorVars
    /\ UNCHANGED weatherVars

\* Other code of the process (the server, a test) adds a handler of its own
\* to the root logger.
AddHandler ==
    /\ Len(logging.handlers) < MaxHandlers
    /\ logging' = [logging EXCEPT
                       !.handlers = Append(@, Handler("other",
                                                      logging.objects + 1)),
                       !.objects = @ + 1]
    /\ UNCHANGED <<fetch, boot>>
    /\ UNCHANGED authVars
    /\ UNCHANGED userVars
    /\ UNCHANGED advisorVars
    /\ UNCHANGED weatherVars

LoggerNext ==
    \/ \E outcome \in ConstructionOutcomes : Construct(outcome)
    \/ AddHandler

SpecLogger == ServicesInit /\ [][LoggerNext]_vars

(***************************************************************************)
(* Claims about auth.py                                                    *)
(***************************************************************************)
WellSigned(c) == c.wellformed /\ c.key = SECRET_KEY
CarriesBoth(c) == IsSome(c.claims.sub) /\ IsSome(c.claims.user_id)
ExpiryOf(c) == Get(c.claims.exp)

\* C3: get_current_user returns {username, user_id} equal to the token's sub
\* and user_id when the token is well-formed, correctly signed, unexpired and
\* carries both claims; a malformed token, an invalid signature, an expired
\* token and a missing sub or user_id all fail with the one 401 response
\* (detail "Could not validate credentials", WWW-Authenticate: Bearer), so
\* every failure is the identical response.
C3_ResolveOrGeneric401 ==
    [][\A c \in (IF IsSome(token) THEN Presentable(Get(token)) ELSE {}) :
          GetCurrentUser(c) =>
            LET r == call'.result IN
            /\ (WellSigned(c) /\ CarriesBoth(c) /\ now < ExpiryOf(c)) =>
                  r = [raised |-> FALSE,
                       value |-> [username |-> Get(c.claims.sub),
                                  user_id |-> Get(c.claims.user_id)]]
            /\ (~WellSigned(c) \/ ~CarriesBoth(c) \/ now > ExpiryOf(c)) =>
                  r.raised
            /\ r.raised =>
                  /\ r.status_code = 401
                  /\ r.detail = "Could not validate credentials"
                  /\ r.headers = "WWW-Authenticate: Bearer"]_vars

\* C3 witness: a correctly signed token that carries both claims was
\* presented after its expiry and got the generic 401.
C3_Witness ==
    /\ call.op = "get_current_user"
    /\ WellSigned(call.credentials) /\ CarriesBoth(call.credentials)
    /\ now > ExpiryOf(call.credentials)
    /\ call.result = credentials_exception

\* C4: a token issued without an explicit lifetime expires 30 minutes after
\* issue and one issued with an explicit lifetime L expires at issue + L;
\* get_current_user accepts the issued token before its expiry and rejects
\* it with 401 after it.
C4_ExpiryIsIssuePlusLifetime ==
    [][/\ \A sub \in Option(Usernames), uid \in Option(UserIds),
            delta \in Option(Lifetimes) :
            CreateAccessToken([sub |-> sub, user_id |-> uid], delta) =>
              ExpiryOf(Get(token')) =
                now + (IF IsSome(delta) THEN Get(delta)
                       ELSE ACCESS_TOKEN_EXPIRE_MINUTES)
       /\ (IsSome(token) /\ CarriesBoth(Get(token))
              /\ GetCurrentUser(Get(token))) =>
              /\ now < ExpiryOf(Get(token)) => ~call'.result.raised
              /\ now > ExpiryOf(Get(token)) =>
                    call'.result.raised /\ call'.result.status_code = 401]_vars

(***************************************************************************)
(* Claims about the User Service's CRUD layer                              *)
(***************************************************************************)
Taken(U, user_data) ==
    \E u \in U : u.username = user_data.username \/ u.email = user_data.email

\* C1: after any sequence of create_user calls no two stored users share a
\* username and no two share an email; a create_user call whose username or
\* email is already stored returns absent and leaves every stored user
\* unchanged.
C1_UniqueUsersAndFailedCreateIsInert ==
    [][/\ \A u, v \in users' :
            (u.username = v.username \/ u.email = v.email) => u = v
       /\ req'.op = "CRUD.create_user" =>
            (Taken(users, req'.user_data) =>
                resp'.ret = None /\ users' = users)]_vars

\* C1 witness: a create_user call with a new username but the email of a
\* stored user has returned absent.
C1_Witness ==
    /\ req.op = "CRUD.create_user"
    /\ resp.ret = None
    /\ \E u \in users : /\ u.email = req.user_data.email
                        /\ u.username # req.user_data.username

ProfileFields ==
    {"city", "country", "last_wash_date", "preferred_wash_interval"}

RowOf(U, id) == CHOOSE u \in U : u.id = id

SameIdentity(u, v) ==
    /\ v.id = u.id
    /\ v.username = u.username
    /\ v.email = u.email
    /\ v.hashed_password = u.hashed_password

\* C8: update_user changes only those of city, country, last_wash_date and
\* preferred_wash_interval that the request supplies (each to the supplied
\* value), update_last_wash_date changes only last_wash_date, both leave the
\* store unchanged when the user does not exist, and no operation removes a
\* user or changes a user's id, username, email or password hash.
C8_OnlySuppliedFieldsChange ==
    [][/\ \A u \in users : \E v \in users' : SameIdentity(u, v)
       /\ req'.op \in {"CRUD.update_user", "CRUD.update_last_wash_date"} =>
            /\ {v.id : v \in users'} = {u.id : u \in users}
            /\ Cardinality(users') = Cardinality(users)
            /\ (\A u \in users : u.id # req'.user_id) => users' = users
            /\ \A u \in users : u.id # req'.user_id => u \in users'
       /\ req'.op = "CRUD.update_user" =>
            \A u \in users : u.id = req'.user_id =>
                \A f \in ProfileFields :
                    RowOf(users', u.id)[f] =
                        IF IsSome(req'.user_data[f])
                        THEN Get(req'.user_data[f]) ELSE u[f]
       /\ req'.op = "CRUD.update_last_wash_date" =>
            \A u \in users : u.id = req'.user_id =>
                \A f \in ProfileFields :
                    RowOf(users', u.id)[f] =
                        IF f = "last_wash_date"
                        THEN Some(req'.wash_date) ELSE u[f]]_vars

\* C8 witness: an update_user call that supplied only the city has changed
\* the city of its user, whose country had been changed before and whose
\* last wash date is on record, while another user is stored.
C8_Witness ==
    /\ req.op = "CRUD.update_user"
    /\ req.user_data = [NoUpdate EXCEPT !.city = Some(Some("Kazan"))]
    /\ Cardinality(users) = 2
    /\ \E u \in users : /\ u.id = req.user_id
                        /\ u.city = Some("Kazan")
                        /\ u.country = Some("Russia")
                        /\ u.last_wash_date # None
                        /\ resp.ret = Some(u)

(***************************************************************************)
(* Claims about the User Service's HTTP API                                *)
(***************************************************************************)
\* The token of a request is valid at time t: well-formed, signed by the
\* server, carrying both claims, and not expired.
HasValidToken(r, t) ==
    /\ IsSome(r.credentials)
    /\ WellSigned(Get(r.credentials))
    /\ CarriesBoth(Get(r.credentials))
    /\ t <= ExpiryOf(Get(r.credentials))

TokenUserId(r) == Get(Get(r.credentials).claims.user_id)

ForeignToken(r, t) == HasValidToken(r, t) /\ TokenUserId(r) # r.user_id

PutOps ==
    {"PUT /api/users/{user_id}", "PUT /api/users/{user_id}/wash-date"}

PayloadValid(r) ==
    IF r.op = "PUT /api/users/{user_id}"
    THEN UserUpdateValid(r.body)
    ELSE IsSome(r.wash_date) /\ Get(r.wash_date) \in IsoDates

PasswordOf(u) == u.hashed_password.digest[2]

\* C5: for a user created with username u and password p, authenticate_user
\* (u, q) returns that user exactly when q = p, and for a username that was
\* never registered it returns absent; the login endpoint answers 200 with a
\* bearer token whose claims name that user in the first case and 401 in
\* every other case.
C5_LoginExactlyWithTheCreatedPassword ==
    req.op = "POST /api/auth/login" =>
        LET matching == {u \in users : /\ u.username = req.body.username
                                       /\ PasswordOf(u) = req.body.password}
        IN IF matching # {}
           THEN \E u \in matching :
                   /\ resp.crud = Returned(Some(u))
                   /\ resp.status = 200
                   /\ IsSome(resp.body)
                   /\ Get(resp.body).token_type = "bearer"
                   /\ Get(resp.body).access_token.claims.sub = Some(u.username)
                   /\ Get(resp.body).access_token.claims.user_id = Some(u.id)
                   /\ WellSigned(Get(resp.body).access_token)
           ELSE /\ resp.crud = Returned(None)
                /\ resp.status = 401
                /\ resp.body = None

\* C5 witness: with two users stored under different passwords, a login
\* with the password of the named user was answered 200.
C5_Witness ==
    /\ req.op = "POST /api/auth/login"
    /\ resp.status = 200
    /\ \E u, v \in users : /\ u.username = req.body.username
                           /\ PasswordOf(u) = req.body.password
                           /\ PasswordOf(v) # req.body.password

\* C6: POST /api/users with a username or an email that is already
\* registered responds with HTTP 400.
C6_DuplicateAnswers400 ==
    [][(/\ req'.op = "POST /api/users"
        /\ UserCreateValid(req'.body)
        /\ Taken(users, req'.body)) => resp'.status = 400]_vars

Qualifying(R, user_id, location, t) ==
    {r \in R : /\ r.user_id = user_id
               /\ r.location = location
               /\ r.is_recommended
               /\ t - r.created_at <= CACHE_RECOMMENDATION_HOURS}

Newest(Q) == {r \in Q : \A q \in Q : q.created_at <= r.created_at}

\* C9: get_cached_recommendation(user, location) returns a row only if the
\* row is for the same user and location, has is_recommended = true and was
\* created within the last 24 hours; among such rows it returns a most
\* recently created one, and absent when there is none.  A row with
\* is_recommended = false is never returned.
C9_CacheHitQualifiesAndIsNewest ==
    areq.op = "CRUD.get_cached_recommendation" =>
        LET Q == Qualifying(recs, areq.user_id, areq.location, clock) IN
        /\ Q = {} => aresp.ret = None
        /\ Q # {} => IsSome(aresp.ret) /\ Get(aresp.ret) \in Newest(Q)
        /\ IsSome(aresp.ret) =>
              /\ Get(aresp.ret) \in recs
              /\ Get(aresp.ret).is_recommended

\* C9 witness: the lookup returned a recommended row created exactly 24
\* hours before, although a newer row for the same user and location with
\* is_recommended = false is stored.
C9_Witness ==
    /\ areq.op = "CRUD.get_cached_recommendation"
    /\ IsSome(aresp.ret)
    /\ clock - Get(aresp.ret).created_at = CACHE_RECOMMENDATION_HOURS
    /\ \E q \in recs : /\ q.user_id = areq.user_id
                       /\ q.location = areq.location
                       /\ ~q.is_recommended
                       /\ q.created_at > Get(aresp.ret).created_at

\* The city the User Service's answer names, if any.
HasLocation(user_info) ==
    /\ IsSome(user_info)
    /\ Get(user_info).has_city
    /\ IsSome(Get(user_info).city)

LocationOf(user_info) == Get(Get(user_info).city)

BuiltFrom(day, r) ==
    /\ day.date = r.recommendation_date
    /\ day.is_recommended = r.is_recommended
    /\ day.score = r.score
    /\ day.temperature = r.temperature
    /\ day.precipitation_probability = r.precipitation_probability
    /\ day.wind_speed = r.wind_speed
    /\ day.reason = r.reason
    /\ day.factors.is_rain_expected = r.is_rain_expected
    /\ day.factors.is_temperature_optimal = r.is_temperature_optimal
    /\ day.factors.is_wind_acceptable = r.is_wind_acceptable
    /\ day.factors.humidity = r.humidity

\* C10: a POST /api/recommendations with force_refresh = false for which a
\* qualifying cached recommendation exists makes no call to the Weather
\* Service, writes no new wash_recommendations row, and responds with
\* cached = true and a best_day built from the cached row.
C10_CacheHitServedWithoutWeatherCall ==
    [][(/\ areq'.op = "POST /api/recommendations"
        /\ ~areq'.body.force_refresh
        /\ HasLocation(areq'.user_info)
        /\ Qualifying(recs, areq'.body.user_id, LocationOf(areq'.user_info),
                      clock) # {})
       => /\ aresp'.weather_call = None
          /\ recs' = recs
          /\ aresp'.status = 200
          /\ Get(aresp'.body).cached = TRUE
          /\ \E r \in Newest(Qualifying(recs, areq'.body.user_id,
                                        LocationOf(areq'.user_info), clock)) :
                /\ IsSome(Get(aresp'.body).best_day)
                /\ BuiltFrom(Get(Get(aresp'.body).best_day), r)]_vars

\* C10 witness: a request without force_refresh was answered from a cached
\* row created 24 hours before, with no call to the Weather Service, while a
\* row that does not qualify is stored as well.
C10_Witness ==
    /\ areq.op = "POST /api/recommendations"
    /\ ~areq.body.force_refresh
    /\ aresp.status = 200
    /\ Get(aresp.body).cached
    /\ aresp.weather_call = None
    /\ \E r \in recs : /\ IsSome(Get(aresp.body).best_day)
                       /\ BuiltFrom(Get(Get(aresp.body).best_day), r)
                       /\ clock - r.created_at = CACHE_RECOMMENDATION_HOURS
    /\ \E q \in recs : ~q.is_recommended

\* C11: a POST /api/recommendations with force_refresh = true that reaches
\* the cache step (the user was found and has a city) calls the Weather
\* Service whatever the cache holds, and when the forecast is available it
\* responds 200 with cached = false and a best_day taken from the forecast,
\* not from a cached row.
C11_ForceRefreshBypassesCache ==
    [][(/\ areq'.op = "POST /api/recommendations"
        /\ areq'.body.force_refresh
        /\ HasLocation(areq'.user_info))
       => /\ aresp'.weather_call
               = Some(WeatherCall(LocationOf(areq'.user_info),
                                  areq'.body.days))
          /\ IsSome(aresp'.forecast)
          /\ Get(aresp'.forecast) # None =>
                /\ aresp'.status = 200
                /\ Get(aresp'.body).cached = FALSE
                /\ Len(Get(aresp'.body).all_days)
                       = Len(Get(Get(aresp'.forecast)).forecast)
                /\ IsSome(Get(aresp'.body).best_day) =>
                       \E i \in 1..Len(Get(aresp'.body).all_days) :
                           Get(aresp'.body).all_days[i]
                               = Get(Get(aresp'.body).best_day)]_vars

\* C11 witness: a request with force_refresh was answered 200 with
\* cached = false after a call to the Weather Service, although a qualifying
\* row of an earlier day was in the cache; the answer's best day is today's.
C11_Witness ==
    /\ areq.op = "POST /api/recommendations"
    /\ areq.body.force_refresh
    /\ aresp.status = 200
    /\ ~Get(aresp.body).cached
    /\ IsSome(aresp.weather_call)
    /\ IsSome(Get(aresp.body).best_day)
    /\ Get(Get(aresp.body).best_day).date = Today(clock)
    /\ \E r \in Qualifying(recs, areq.body.user_id,
                            LocationOf(areq.user_info), clock) :
           r.recommendation_date < Today(clock)

\* C12: in a 200 response to POST /api/recommendations, best_day is absent
\* whenever no day of all_days has a score of at least 60.
C12_BestDayAbsentBelowThreshold ==
    (/\ areq.op = "POST /api/recommendations"
     /\ aresp.status = 200
     /\ \A i \in 1..Len(Get(aresp.body).all_days) :
            Get(aresp.body).all_days[i].score < min_acceptable_score)
    => Get(aresp.body).best_day = None

\* C14: POST /api/recommendations responds 404 when the User Service
\* returns no profile and 400 when the profile has no city (no city key, or
\* a null city), in both cases without a call to the Weather Service and
\* without a new wash_recommendations row; it responds 404, again without a
\* new row, when the Weather Service returns no forecast.
C14_MissingUserCityOrForecast ==
    [][areq'.op = "POST /api/recommendations" =>
        /\ areq'.user_info = None =>
              /\ aresp'.status = 404
              /\ aresp'.weather_call = None
              /\ recs' = recs
        /\ (IsSome(areq'.user_info) /\ ~HasLocation(areq'.user_info)) =>
              /\ aresp'.status = 400
              /\ aresp'.weather_call = None
              /\ recs' = recs
        /\ aresp'.forecast = Some(None) =>
              /\ aresp'.status = 404
              /\ recs' = recs]_vars

\* C14 witness: with a row already stored, a request for a user whose
\* profile has a null city was answered 400 without a call to the Weather
\* Service.
C14_Witness ==
    /\ areq.op = "POST /api/recommendations"
    /\ IsSome(areq.user_info)
    /\ Get(areq.user_info).has_city
    /\ Get(areq.user_info).city = None
    /\ aresp.status = 400
    /\ aresp.weather_call = None
    /\ recs # {}

(***************************************************************************)
(* Claims about WashAdvisorLogic                                           *)
(***************************************************************************)
\* The days find_best_wash_day chooses among: those scoring at least 60, or
\* all of them when none does.
Pool(days) ==
    LET ok == {i \in 1..Len(days) : days[i].score >= min_acceptable_score}
    IN IF ok = {} THEN 1..Len(days) ELSE ok

\* C13: find_best_wash_day returns absent exactly for the empty list;
\* otherwise it returns a day whose score is the maximum among the days
\* scoring at least 60, or among all days when none scores at least 60, and
\* is_recommended is true exactly when the returned score is at least 60.
C13_BestDayIsMaxOfAcceptableElseOfAll ==
    areq.op = "find_best_wash_day" =>
        LET days == areq.analyzed_days IN
        /\ (days = <<>>) <=> (aresp.ret = None)
        /\ days # <<>> =>
              LET ret == Get(aresp.ret) IN
              /\ \E i \in Pool(days) :
                    /\ ret.date = days[i].date
                    /\ ret.score = days[i].score
                    /\ \A j \in Pool(days) : days[j].score <= days[i].score
              /\ ret.is_recommended <=> ret.score >= min_acceptable_score

\* C13 witness: of two days scoring 30 and 45 the second is returned, with
\* is_recommended false.
C13_Witness ==
    /\ areq.op = "find_best_wash_day"
    /\ Len(areq.analyzed_days) = 2
    /\ areq.analyzed_days[1].score = 30 * ScoreUnit
    /\ areq.analyzed_days[2].score = 45 * ScoreUnit
    /\ Get(aresp.ret).date = areq.analyzed_days[2].date
    /\ Get(aresp.ret).score = 45 * ScoreUnit
    /\ ~Get(aresp.ret).is_recommended

(***************************************************************************)
(* Claims about overlapping recommendation requests                        *)
(***************************************************************************)
\* C15: after any interleaving of recommendation requests user_context
\* holds at most one row per user_id; and when a request that ran with no
\* other request of its user in flight completes with 200, the user's row
\* carries the city, country, last_wash_date and preferred_wash_interval of
\* the profile the request fetched.
C15_OneContextRowPerUserHoldingTheProfile ==
    [][/\ \A c, d \in ctx' : c.user_id = d.user_id => c = d
       /\ (/\ areq'.op = "POST /api/recommendations"
           /\ aresp'.status = 200
           /\ areq'.alone)
          => \E c \in ctx' :
                /\ c.user_id = areq'.user_id
                /\ c.city = Get(areq'.user_info).city
                /\ c.country = Get(areq'.user_info).country
                /\ c.last_wash_date = Get(areq'.user_info).last_wash_date
                /\ c.preferred_wash_interval
                       = Get(areq'.user_info).preferred_wash_interval]_vars

\* C15 witness: a request that ran with no other request of its user in
\* flight completed with 200 and the user's row carries its profile, while
\* a request of the other user is in flight.
C15_Witness ==
    /\ areq.op = "POST /api/recommendations"
    /\ aresp.status = 200
    /\ areq.alone
    /\ Get(areq.user_info).city = Some("Kazan")
    /\ \E c \in ctx : c.user_id = areq.user_id /\ c.city = Some("Kazan")
    /\ \E k \in 1..MaxInFlight :
           InFlight(k) /\ txns[k].user_id # areq.user_id

(***************************************************************************)
(* Claims about the Weather Service's HTTP API                             *)
(***************************************************************************)
\* The cached rows of a location that were created within the TTL window
\* that ends at time t.
InTtlWindow(F, location_id, t) ==
    {f \in F : /\ f.location_id = location_id
               /\ f.is_cached
               /\ f.created_at >= t - CACHE_TTL_HOURS}

\* A stored location matches the city and has at least `days` cached rows
\* within the TTL window.
SufficientCache(L, F, city, days, t) ==
    \E l \in L :
        /\ ilike(l.city_name, city)
        /\ Cardinality(InTtlWindow(F, l.id, t)) >= days

AnsweredWeather(r, q) == r.op = "GET /api/weather" /\ q.status # 422

\* C16: GET /api/weather with days = N answers from the cache (cached =
\* true, no provider call) only if at least N cached rows of the matched
\* location are within the TTL window, i.e. were created at or after now
\* minus CACHE_TTL_HOURS.
C16_CachedOnlyWithNRowsInTtlWindow ==
    [][(AnsweredWeather(wreq', wresp') /\ wresp'.cached)
           => SufficientCache(locations, forecasts, wreq'.city, wreq'.days,
                              wclock)]_vars

\* C20: every GET /api/weather request that passes query validation leaves
\* exactly one new api_request_logs row once it has finished, carrying the
\* HTTP status that was returned and the was_cached flag of the response.
C20_EveryRequestLeavesOneLogRow ==
    [][AnsweredWeather(wreq', wresp') =>
           /\ Len(api_request_logs') = Len(api_request_logs) + 1
           /\ SubSeq(api_request_logs', 1, Len(api_request_logs))
                  = api_request_logs
           /\ api_request_logs'[Len(api_request_logs')].response_status
                  = wresp'.status
           /\ api_request_logs'[Len(api_request_logs')].was_cached
                  = wresp'.cached]_vars

(***************************************************************************)
(* Claims about the Weather Service's CRUD layer                           *)
(***************************************************************************)
\* C17: get_cached_forecast never returns a forecast row whose created_at
\* is earlier than now minus CACHE_TTL_HOURS.
C17_NoRowOlderThanTtlReturned ==
    (wreq.op = "get_cached_forecast" /\ IsSome(wresp.ret))
        => \A k \in 1..Len(Get(wresp.ret)) :
               Get(wresp.ret)[k].created_at >= wclock - CACHE_TTL_HOURS

\* The days of a call whose date parses, and the dates they name.
ParsedDays(forecast_days) ==
    {i \in 1..Len(forecast_days) : strptime_ok(forecast_days[i].date)}

DatesOf(forecast_days) ==
    {strptime(forecast_days[i].date) : i \in ParsedDays(forecast_days)}

\* The last day record of a call that names the date.
LastFor(forecast_days, forecast_date) ==
    forecast_days[CHOOSE i \in ParsedDays(forecast_days) :
                      /\ strptime(forecast_days[i].date) = forecast_date
                      /\ \A j \in ParsedDays(forecast_days) :
                             strptime(forecast_days[j].date) = forecast_date
                                 => j <= i]

OneRowPerLocationAndDate(F) ==
    \A f, g \in F : (f.location_id = g.location_id /\ f.date = g.date) => f = g

\* C18: after every create_forecasts call there is at most one forecast row
\* per (location, date); the row of each date the call included holds the
\* weather values of the call's last record for that date and is marked
\* cached, and the rows of all other dates and locations are as they were.
\* By induction over a sequence of calls, the row of a date holds the
\* values of the last call that included the date.
C18_OneRowPerDateHoldingTheLastCall ==
    [][/\ OneRowPerLocationAndDate(forecasts')
       /\ wreq'.op = "create_forecasts" =>
           /\ \A d \in DatesOf(wreq'.forecast_days) :
                  \E f \in forecasts' :
                      /\ f.location_id = wreq'.location_id
                      /\ f.date = d
                      /\ f.temperature_avg =
                             LastFor(wreq'.forecast_days, d).temperature_avg
                      /\ f.is_cached
           /\ \A f \in forecasts' :
                  (f.location_id # wreq'.location_id
                       \/ f.date \notin DatesOf(wreq'.forecast_days))
                      => f \in forecasts
           /\ \A f \in forecasts :
                  (f.location_id # wreq'.location_id
                       \/ f.date \notin DatesOf(wreq'.forecast_days))
                      => f \in forecasts']_vars

\* A call has overwritten the row that a call with another source created,
\* and a record whose date does not parse was skipped.
C18_Witness ==
    /\ wreq.op = "create_forecasts"
    /\ Len(wreq.forecast_days) = 2
    /\ Cardinality(ParsedDays(wreq.forecast_days)) = 1
    /\ \E f \in forecasts, d \in DatesOf(wreq.forecast_days) :
           /\ f.location_id = wreq.location_id
           /\ f.date = d
           /\ f.forecast_source # wreq.source
           /\ f.temperature_avg = 9
           /\ LastFor(wreq.forecast_days, d).temperature_avg = 9
    /\ Cardinality(forecasts) = 2

\* The stored locations whose city_name contains the requested name,
\* case-insensitively.
MatchingLocations(L, city_name) == {l \in L : ilike(l.city_name, city_name)}

\* C19: create_location inserts a new location only when no stored
\* city_name contains the requested name case-insensitively; whenever one
\* or more stored locations match, it returns one of them and the location
\* rows stay as they were.
C19_InsertOnlyWithoutMatchElseReturnExisting ==
    [][wreq'.op = "create_location" =>
           IF MatchingLocations(locations, wreq'.city_name) = {}
           THEN /\ IsSome(wresp'.ret)
                /\ Get(wresp'.ret) \notin locations
                /\ locations' = locations \cup {Get(wresp'.ret)}
           ELSE /\ IsSome(wresp'.ret)
                /\ Get(wresp'.ret) \in
                       MatchingLocations(locations, wreq'.city_name)
                /\ locations' = locations]_vars

(***************************************************************************)
(* Claims about the Weather Service's provider client                      *)
(***************************************************************************)
\* The positions of the HTTP requests in the trace of a get_forecast call.
RequestsOf(trace) == {i \in 1..Len(trace) : trace[i].event = "request"}

EndedWith(f, ret) == f.pc = "done" /\ f.ret = ret

\* What holds of a get_forecast call at every moment.
ForecastCallBounded ==
    /\ Cardinality(RequestsOf(fetch.trace)) <= 3
    /\ ~fetch.api_key =>
           /\ fetch.trace = <<>>
           /\ fetch.pc = "done" => fetch.ret = None
    /\ \A i \in RequestsOf(fetch.trace) :
           /\ fetch.trace[i].outcome \in {"400", "401", "403", "404"} =>
                  i = Len(fetch.trace) /\ EndedWith(fetch, None)
           /\ fetch.trace[i].outcome = "200 valid" =>
                  i = Len(fetch.trace) /\ EndedWith(fetch, Some("data"))
    /\ fetch.ret # None =>
           /\ fetch.trace # <<>>
           /\ fetch.trace[Len(fetch.trace)].outcome = "200 valid"
    /\ (/\ Cardinality(RequestsOf(fetch.trace)) = 3
        /\ fetch.trace[Len(fetch.trace)].outcome # "200 valid")
           => EndedWith(fetch, None)

\* C21: get_forecast always terminates after at most 3 HTTP requests to the
\* provider: without an API key it makes none and returns None; a 400, 401,
\* 403 or 404 response ends the call at once with None; a valid 200 on any
\* attempt returns that response's data; three failed attempts end the call
\* with None.
C21_GetForecastEndsWithinThreeRequests ==
    /\ []ForecastCallBounded
    /\ (fetch.pc \in {"request", "sleep"}) ~> (fetch.pc = "done")

\* The third attempt succeeded after two retryable failures.
C21_Witness ==
    /\ fetch.pc = "done"
    /\ fetch.ret = Some("data")
    /\ Cardinality(RequestsOf(fetch.trace)) = 3

\* The number of the attempt (0, 1, 2) that made the request at position i.
AttemptOf(trace, i) == Cardinality({k \in RequestsOf(trace) : k < i})

\* C22: between two consecutive provider attempts of one get_forecast call
\* there is a backoff sleep of 2^attempt seconds (1 s after the first
\* attempt, 2 s after the second), whatever retryable failure the earlier
\* attempt ended in, and no sleep follows the last attempt.
C22_BackoffBetweenAttempts ==
    \A i \in RequestsOf(fetch.trace) :
        /\ (\E j \in RequestsOf(fetch.trace) : j > i) =>
               /\ fetch.trace[i + 1]
                      = SleepEvent(Power2(AttemptOf(fetch.trace, i)))
               /\ fetch.trace[i + 2].event = "request"
        /\ AttemptOf(fetch.trace, i) = 2 =>
               i = Len(fetch.trace) /\ fetch.pc = "done"

(***************************************************************************)
(* Claims about the services' startup                                      *)
(***************************************************************************)
IsCheck(e) == e \in {"check ok", "check failed"}

ChecksIn(trace) == {k \in 1..Len(trace) : IsCheck(trace[k])}

StartupOrderly ==
    LET t == boot.trace
        n == Len(t)
        inits == {k \in 1..n : t[k] \in {"init_db ok", "init_db failed"}}
    IN  /\ Cardinality(ChecksIn(t)) <= 5
        /\ \A k \in 1..n : t[k] = "sleep 3" =>
              /\ k > 1
              /\ t[k - 1] = "check failed"
              /\ Cardinality({j \in ChecksIn(t) : j < k}) < 5
              /\ k < n => IsCheck(t[k + 1])
        /\ \A k \in 1..n :
              (/\ t[k] = "check failed"
               /\ k < n
               /\ Cardinality({j \in ChecksIn(t) : j <= k}) < 5)
              => t[k + 1] = "sleep 3"
        /\ Cardinality(inits) <= 1
        /\ \A k \in inits : k > 1 /\ t[k - 1] = "check ok"
        /\ \A k \in 1..n : t[k] = "check ok" =>
              /\ \A j \in 1..n : j > k => ~IsCheck(t[j])
              /\ \A j \in 1..n : j < k => t[j] # "check ok"

\* C23: the startup of each service always completes.  It performs at most
\* 5 database connectivity checks, pauses 3 seconds only between checks and
\* not after the fifth, runs schema creation at most once and only directly
\* after the first successful check, performs no further check after a
\* success, and a startup that has begun always reaches the serving state,
\* also when all 5 checks fail.
C23_StartupAlwaysCompletes ==
    /\ []StartupOrderly
    /\ (boot.pc # "down") ~> (boot.pc = "serving")

\* A service is serving after five failed checks.
C23_Witness ==
    /\ boot.pc = "serving"
    /\ Cardinality({k \in 1..Len(boot.trace) :
                       boot.trace[k] = "check failed"}) = 5

(***************************************************************************)
(* Claims about the Wash Advisor's scoring                                 *)
(***************************************************************************)
Analyzed == areq.op = "analyze_weather_day"

\* The score of the analysed day before the user-context adjustment: what
\* _calculate_score gives for the measurements and flags of the day.
BaseScore(day) ==
    calculate_score(day.temperature, day.precipitation_probability,
                    day.wind_speed, day.humidity, day.is_rain_expected,
                    day.is_temperature_optimal, day.is_wind_acceptable)

\* C24: for every combination of present or absent temperature,
\* precipitation probability, wind speed and humidity, and for every user
\* context, the score returned by analyze_weather_day lies within [0, 100],
\* both before and after the user-context adjustment.
C24_ScoreWithinZeroAndHundred ==
    Analyzed =>
        /\ 0 <= aresp.ret.score
        /\ aresp.ret.score <= 100 * ScoreUnit
        /\ 0 <= BaseScore(aresp.ret)
        /\ BaseScore(aresp.ret) <= 100 * ScoreUnit

\* A recently washed car on a cold, stormy day: the penalties exceed the
\* weighted score and the score is held at 0.
C24_Witness ==
    /\ Analyzed
    /\ areq.weather_data.temperature_avg = Some(0 - 10)
    /\ areq.weather_data.precipitation_probability = Some(8)
    /\ areq.weather_data.wind_speed = Some(40)
    /\ areq.weather_data.humidity = None
    /\ areq.user_context # None
    /\ Get(areq.user_context).days_since_last_wash = Some(2)
    /\ aresp.ret.score = 0

\* C25: for any fixed temperature, wind speed, humidity and user context,
\* analyze_weather_day with precipitation probability 0.8 sets
\* is_rain_expected = true and yields a score strictly lower than the same
\* inputs with precipitation probability 0.1.
C25_RainLowersTheScore ==
    (Analyzed /\ areq.weather_data.precipitation_probability = Some(8)) =>
        /\ aresp.ret.is_rain_expected
        /\ aresp.ret.score
              < analyze_weather_day(
                    [areq.weather_data EXCEPT
                        !.precipitation_probability = Some(1)],
                    areq.user_context).score

(***************************************************************************)
(* Claims about the Wash Advisor's API client                              *)
(***************************************************************************)
ApiCalled == areq.op \in {"get_user_info", "get_weather_forecast"}

\* C26: get_user_info and get_weather_forecast never raise to their caller:
\* a 200 response returns the parsed body, and a 404, any other status, a
\* timeout or any other error returns absent.
C26_ApiClientNeverRaises ==
    ApiCalled =>
        /\ aresp.raised = "none"
        /\ IF /\ areq.outcome.exception = "none"
              /\ areq.outcome.status_code = 200
              /\ json(areq.outcome.text).raised = "none"
           THEN aresp.ret = json(areq.outcome.text).ret
           ELSE aresp.ret = None

\* The client could not connect, and the call returned absent.
C26_Witness ==
    /\ ApiCalled
    /\ areq.outcome.exception = "ConnectError"
    /\ aresp = Returns(None)

(***************************************************************************)
(* Claims about the parsing of the provider's forecast                     *)
(***************************************************************************)
\* The text without one '%' at its end, if it has one.
WithoutTrailingPercent(text) ==
    IF text # <<>> /\ text[Len(text)] = "%"
    THEN SubSeq(text, 1, Len(text) - 1) ELSE text

\* value / 100 for a number and for a string that is a number with an
\* optional trailing '%'; 0 for everything else.
NormalisedChanceOfRain(value) ==
    IF value.type = "int" THEN Number(value.num, 2)
    ELSE IF value.type = "str" /\ float_ok(WithoutTrailingPercent(value.text))
    THEN DivideBy100(float(WithoutTrailingPercent(value.text)))
    ELSE Number(0, 0)

\* C27: parse_forecast_data normalises daily_chance_of_rain to
\* precipitation_probability = value / 100 both for a numeric value and for
\* a string with an optional trailing '%' ("60%" gives 0.6), and to 0 for
\* every value that cannot be parsed as a number.
C27_ChanceOfRainNormalised ==
    wreq.op = "parse_forecast_data" =>
        /\ Len(wresp.forecast_days) = 1
        /\ SameNumber(wresp.forecast_days[1].precipitation_probability,
                      NormalisedChanceOfRain(wreq.daily_chance_of_rain))

(***************************************************************************)
(* Claims about the centralized logger                                     *)
(***************************************************************************)
Kinds(handlers) == [i \in 1..Len(handlers) |-> handlers[i].kind]

\* A call of CentralizedLogger() has returned an object in this step.
Constructed ==
    /\ logging'.calls = logging.calls + 1
    /\ logging'.raised = "none"

\* C28: however many times CentralizedLogger is constructed in a process,
\* the root logger is configured once: after the first construction it has
\* exactly two handlers (console and rotating file), and every later
\* construction returns the same instance and adds or removes no handler.
C28_RootLoggerConfiguredOnce ==
    [][Constructed =>
          /\ logging'.ret # None
          /\ logging'.ret = logging'.instance
          /\ logging.instance # None => logging'.instance = logging.instance
          /\ IF logging.initialized
             THEN /\ logging'.handlers = logging.handlers
                  /\ logging'.initialized
             ELSE Kinds(logging'.handlers) = <<"console", "file">>]_vars

\* The third construction has returned, and the root logger holds the two
\* handlers of the first one and a handler added by other code.
C28_Witness ==
    /\ logging.calls = 3
    /\ logging.raised = "none"
    /\ logging.ret = Some(1)
    /\ Kinds(logging.handlers) = <<"console", "file", "other">>
    /\ logging.handlers[1].id = 2

(***************************************************************************)
(* Claims about a cached "no good day" outcome                             *)
(***************************************************************************)
\* The rows of (user, city) that were created last.
LatestRows(R, user_id, location) ==
    LET rows == {r \in R : r.user_id = user_id /\ r.location = location}
    IN {r \in rows : \A q \in rows : q.created_at <= r.created_at}

\* C29: if the most recently created recommendation for (user, city) is not
\* recommended, the next POST /api/recommendations with force_refresh =
\* false for that user and city calls the Weather Service instead of
\* answering from the cache, also when an older recommended row for the same
\* user and city still lies within the 24-hour window.
C29_NoGoodDayIsNeverACacheHit ==
    [][(/\ areq'.op = "POST /api/recommendations"
        /\ ~areq'.body.force_refresh
        /\ HasLocation(areq'.user_info)
        /\ LatestRows(recs, areq'.body.user_id,
                      LocationOf(areq'.user_info)) # {}
        /\ \A r \in LatestRows(recs, areq'.body.user_id,
                               LocationOf(areq'.user_info)) :
               ~r.is_recommended)
       => /\ IsSome(aresp'.weather_call)
          /\ aresp'.status = 200 => ~Get(aresp'.body).cached]_vars

(***************************************************************************)
(* Claims about repeated forecast requests                                 *)
(***************************************************************************)
\* The last request was answered 200 by a fresh provider fetch that
\* returned at least as many days as were asked for.
FreshlyFetched ==
    /\ wreq.op = "GET /api/weather"
    /\ wresp.status = 200
    /\ ~wresp.cached
    /\ IsSome(wreq.provider)
    /\ IsSome(Get(wreq.provider))
    /\ Len(Get(Get(wreq.provider)).forecast_days) >= wreq.days

\* C30: after a GET /api/weather for city C and days = N was answered by a
\* fresh provider fetch that returned at least N days, an immediately
\* following GET /api/weather for the same C and N (within the TTL) is a
\* cache hit: it makes no provider call and returns cached = true, whatever
\* city name the provider reported for C and however long the process has
\* been running.
C30_ImmediateRepeatIsACacheHit ==
    [][(/\ FreshlyFetched
        /\ wreq'.op = "GET /api/weather"
        /\ wreq'.city = wreq.city
        /\ wreq'.days = wreq.days
        /\ wclock' = wclock)
       => /\ wresp'.status = 200
          /\ wresp'.cached
          /\ wreq'.provider = None]_vars

(***************************************************************************)
(* Claims about the purge after a fresh fetch                              *)
(***************************************************************************)
\* The request of this step was answered 200 from the provider's forecast.
FreshFetch ==
    /\ wreq'.op = "GET /api/weather"
    /\ wresp'.status = 200
    /\ ~wresp'.cached
    /\ IsSome(wreq'.provider)
    /\ IsSome(Get(wreq'.provider))

\* C31: the purge that follows a fresh fetch (delete_old_forecasts run after
\* create_forecasts in the same request) never deletes a row that this
\* create_forecasts call inserted or overwrote: after the request, every
\* date of the provider's forecast has its row, for a location that matches
\* the provider's city name.
C31_PurgeKeepsTheRowsJustWritten ==
    [][FreshFetch =>
          \A d \in DatesOf(Get(Get(wreq'.provider)).forecast_days) :
              \E f \in forecasts', l \in locations' :
                  /\ f.location_id = l.id
                  /\ f.date = d
                  /\ ilike(l.city_name, Get(Get(wreq'.provider)).city_name)]_vars

(***************************************************************************)
(* Claims about overlapping forecast requests                              *)
(***************************************************************************)
NoWeatherRequestInFlight == \A k \in 1..MaxInFlight : wtxns[k].pc = "idle"

\* C32: under any interleaving of concurrent GET /api/weather requests for
\* the same previously unknown city, the store converges: once all of them
\* have finished, at most one location row matches that city and at most
\* one forecast row exists per (location, date), and later requests for
\* that city (requests that arrive when a location matches it) reuse that
\* location without adding location rows.
C32_ConcurrentRequestsConverge ==
    /\ [](NoWeatherRequestInFlight =>
             /\ Cardinality(MatchingLocations(locations, Omsk)) <= 1
             /\ OneRowPerLocationAndDate(forecasts))
    /\ [][(wreq'.op = "GET /api/weather" /\ wreq'.known)
             => locations' = locations]_vars

(***************************************************************************)
(* Claims about overlapping create_user calls                              *)
(***************************************************************************)
\* Calls j and k have both returned and ran concurrently.
ReturnedConcurrently(j, k) ==
    /\ j # k
    /\ utxns[j].pc = "returned" /\ utxns[k].pc = "returned"
    /\ utxns[j].overlapped /\ utxns[k].overlapped

\* Calls j and k were made with the same username or the same email.
SameUsername(j, k) ==
    utxns[j].user_data.username = utxns[k].user_data.username

SameEmail(j, k) == utxns[j].user_data.email = utxns[k].user_data.email

\* The stored users that hold the username or the email the calls share.
StoredWithShared(j, k) ==
    {u \in users :
        \/ SameUsername(j, k) /\ u.username = utxns[k].user_data.username
        \/ SameEmail(j, k) /\ u.email = utxns[k].user_data.email}

PostedRecommendation == areq'.op = "POST /api/recommendations"

\* C34: each POST /api/recommendations adds at most one wash_recommendations
\* row: exactly one after a fresh scoring run that found a best day, none on
\* a cache hit and none on an error response; it never modifies or deletes
\* an existing wash_recommendations row.
C34_AtMostOneRowAddedNoneChanged ==
    [][PostedRecommendation
       => /\ recs \subseteq recs'
          /\ Cardinality(recs') <= Cardinality(recs) + 1
          /\ (/\ aresp'.status = 200
              /\ ~Get(aresp'.body).cached
              /\ IsSome(Get(aresp'.body).best_day))
             => /\ Cardinality(recs') = Cardinality(recs) + 1
                /\ \A r \in recs' \ recs :
                       /\ r.user_id = areq'.body.user_id
                       /\ r.recommendation_date
                              = Get(Get(aresp'.body).best_day).date
          /\ (aresp'.status = 200 /\ Get(aresp'.body).cached)
             => recs' = recs
          /\ aresp'.status # 200 => recs' = recs]_vars

\* A fresh scoring run has found a best day and stored it next to the rows
\* that were there before, one of them of the same user and city.
C34_Witness ==
    /\ areq.op = "POST /api/recommendations"
    /\ aresp.status = 200
    /\ ~Get(aresp.body).cached
    /\ IsSome(Get(aresp.body).best_day)
    /\ \E r, q \in recs :
           /\ r.id # q.id
           /\ r.user_id = q.user_id
           /\ r.location = q.location
           /\ r.user_id = areq.body.user_id
           /\ r.created_at = clock
           /\ q.created_at < clock

(***************************************************************************)
(* Claims about whose rows answer a request                                *)
(***************************************************************************)
\* The day a response shows for the stored row r.
DayOfRow(r) ==
    WashRecommendationDay(
        r.recommendation_date, r.is_recommended, r.score, r.temperature,
        r.precipitation_probability, r.wind_speed, r.reason,
        [is_rain_expected |-> r.is_rain_expected,
         is_temperature_optimal |-> r.is_temperature_optimal,
         is_wind_acceptable |-> r.is_wind_acceptable,
         humidity |-> r.humidity])

\* C35: a recommendation row stored for user X and city A is never used to
\* answer a request of a different user, nor a request of X made after X's
\* city in the User Service has changed to a city different from A: every
\* answer from the cache shows a row stored for the requesting user and for
\* the city the User Service reports for that user at the request.
C35_CachedRowIsOfTheSameUserAndCity ==
    [][(/\ PostedRecommendation
        /\ aresp'.status = 200
        /\ Get(aresp'.body).cached)
       => /\ HasLocation(areq'.user_info)
          /\ Get(aresp'.body).location = LocationOf(areq'.user_info)
          /\ \E r \in recs :
                 /\ r.user_id = areq'.body.user_id
                 /\ r.location = LocationOf(areq'.user_info)
                 /\ Get(aresp'.body).all_days = <<DayOfRow(r)>>]_vars

\* User u1, now in Kazan, has been answered by a fresh scoring run while a
\* recommended row stored for u1 in Moscow lies within the cache window.
C35_Witness ==
    /\ areq.op = "POST /api/recommendations"
    /\ areq.body.user_id = "u1"
    /\ ~areq.body.force_refresh
    /\ HasLocation(areq.user_info)
    /\ LocationOf(areq.user_info) = "Kazan"
    /\ aresp.status = 200
    /\ ~Get(aresp.body).cached
    /\ \E r \in recs :
           /\ r.user_id = "u1"
           /\ r.location = "Moscow"
           /\ r.is_recommended
           /\ r.created_at < clock
           /\ r.created_at >= clock - CACHE_RECOMMENDATION_HOURS

(***************************************************************************)
(* Claims about the user-context adjustment of the score                   *)
(***************************************************************************)
\* The user context of the analysed call knows the days since the last wash.
DaysSinceKnown ==
    /\ IsSome(areq.user_context)
    /\ IsSome(Get(areq.user_context).days_since_last_wash)

IntervalOptimal ==
    /\ IsSome(areq.user_context)
    /\ Get(areq.user_context).is_interval_optimal = Some(TRUE)

\* The base score with the bonus, held at 100, and with the penalty, held
\* at 0.
WithBonus(base) ==
    IF base + 10 * ScoreUnit > 100 * ScoreUnit
    THEN 100 * ScoreUnit ELSE base + 10 * ScoreUnit

WithPenalty(base) ==
    IF base - 20 * ScoreUnit < 0 THEN 0 ELSE base - 20 * ScoreUnit

\* C36: in analyze_weather_day the +10 interval bonus and the -20 recent-wash
\* penalty are mutually exclusive and both need a known days_since_last_wash:
\* the bonus is applied exactly when is_interval_optimal is true, the penalty
\* exactly when is_interval_optimal is not true and days_since_last_wash < 7
\* (a user with preferred interval 3 and 5 days since the last wash gets the
\* bonus and no penalty), and with no last wash date on record the score is
\* left unchanged.
C36_BonusAndPenaltyExclusive ==
    Analyzed =>
        /\ (DaysSinceKnown /\ IntervalOptimal)
           => aresp.ret.score = WithBonus(BaseScore(aresp.ret))
        /\ (/\ DaysSinceKnown
            /\ ~IntervalOptimal
            /\ Get(Get(areq.user_context).days_since_last_wash) < 7)
           => aresp.ret.score = WithPenalty(BaseScore(aresp.ret))
        /\ (/\ DaysSinceKnown
            /\ ~IntervalOptimal
            /\ Get(Get(areq.user_context).days_since_last_wash) >= 7)
           => aresp.ret.score = BaseScore(aresp.ret)
        /\ ~DaysSinceKnown => aresp.ret.score = BaseScore(aresp.ret)
        /\ areq.user_context
              = Some(calculate_user_context(RecentWashShortInterval, 0))
           => /\ Get(areq.user_context).days_since_last_wash = Some(5)
              /\ IntervalOptimal

\* The user who prefers 3 days and washed 5 days ago has got the bonus on a
\* day whose base score leaves room for it.
C36_Witness ==
    /\ Analyzed
    /\ areq.user_context
          = Some(calculate_user_context(RecentWashShortInterval, 0))
    /\ BaseScore(aresp.ret) > 20 * ScoreUnit
    /\ BaseScore(aresp.ret) < 90 * ScoreUnit
    /\ aresp.ret.score = BaseScore(aresp.ret) + 10 * ScoreUnit

(***************************************************************************)
(* Claims about the cached answer and the requested number of days         *)
(***************************************************************************)
\* The recommended rows of (user, city) inside the cache window at time t.
RowsInWindow(R, user_id, location, t) ==
    {r \in R : /\ r.user_id = user_id
               /\ r.location = location
               /\ r.is_recommended
               /\ r.created_at >= t - CACHE_RECOMMENDATION_HOURS}

\* C37: on a cache hit the response of POST /api/recommendations has an
\* all_days list of exactly one entry, the cached day, whatever number of
\* days was requested; the cache lookup does not depend on the requested
\* number of days: a request without force_refresh is answered from the
\* cache exactly when a recommended row of the user and city lies in the
\* window.
C37_CacheHitShowsOneDayWhateverDays ==
    [][(PostedRecommendation /\ HasLocation(areq'.user_info))
       => /\ (aresp'.status = 200 /\ Get(aresp'.body).cached)
             => /\ Len(Get(aresp'.body).all_days) = 1
                /\ \E r \in RowsInWindow(recs, areq'.body.user_id,
                                         LocationOf(areq'.user_info), clock) :
                       Get(aresp'.body).all_days = <<DayOfRow(r)>>
          /\ ~areq'.body.force_refresh
             => ((aresp'.status = 200 /\ Get(aresp'.body).cached)
                 <=> RowsInWindow(recs, areq'.body.user_id,
                                  LocationOf(areq'.user_info), clock) # {})
       ]_vars

\* A request for 14 days has been answered from the cache with one day.
C37_Witness ==
    /\ areq.op = "POST /api/recommendations"
    /\ areq.body.days = 14
    /\ aresp.status = 200
    /\ Get(aresp.body).cached
    /\ Len(Get(aresp.body).all_days) = 1

(***************************************************************************)
(* Claims about a provider response that fails to parse                    *)
(***************************************************************************)
\* C38: when parse_forecast_data fails on a provider response and falls back
\* to the location {Unknown, Unknown, 0, 0} with an empty day list, GET
\* /api/weather stores no location row and no forecast rows for that
\* request.
C38_ParseFallbackStoresNothing ==
    [][(/\ wreq'.op = "GET /api/weather"
        /\ wreq'.provider = Some(Some(ParseFallback)))
       => /\ locations' = locations
          /\ forecasts' = forecasts]_vars

=============================================================================
